---- MODULE Spec2Model ----
(***************************************************************************)
(* The real-time patient queue of the clinic backend                      *)
(* (backend/app/services/queue_service.py, class QueueService) over its   *)
(* Redis keys, for one queue date (the keys of other dates are followed  *)
(* by name in elsewhere).  Every awaited Redis command of a handler is    *)
(* one step; handlers interleave between steps.                           *)
(***************************************************************************)
EXTENDS Integers, Sequences, FiniteSets, TLC

\* ------------------------------------------------------------- bounds
MaxTokens == 2      \* check_in is not started once this many numbers are out
MaxTime == 1        \* the clock reads 0..MaxTime
MaxOps == 3         \* status requests (call next, update, skip, recall) started
MaxPrefixOps == 2   \* status requests started before a caller's scenario begins
MaxAppointments == 1    \* rows of the appointments table
MaxTieTokens == 10  \* check-ins of the day that reaches two-digit numbers
MaxElsewhereOps == 2    \* requests for dates other than the one followed
Procs == {"h1", "h2"}   \* concurrently running request handlers

\* ------------------------------------------------------------- values
\* Python's None and a missing Redis key; every string is a sequence of
\* naturals, so None differs from all of them.
None == <<-1>>
EmptyStr == <<>>
Statuses == {"WAITING", "WITH_DOCTOR", "COMPLETED", "SKIPPED", "NO_SHOW"}

\* str(n): the decimal digits of n
RECURSIVE Str(_)
Str(n) == IF n < 10 THEN <<n>> ELSE Append(Str(n \div 10), n % 10)

\* int(s)
RECURSIVE ParseInt(_)
ParseInt(s) == IF Len(s) = 1 THEN s[1]
               ELSE 10 * ParseInt(SubSeq(s, 1, Len(s) - 1)) + s[Len(s)]

\* datetime.isoformat() of the instant t
IsoFormat(t) == <<t>>

\* checkin_time.timestamp(): the seconds of the instant t.  The naive
\* utcnow() value is read as local time; the server's zone is taken to be
\* UTC, or any zone without a daylight-saving gap, where this keeps order
Timestamp(t) == t

\* `x or None`
OrNone(x) == IF x = EmptyStr THEN None ELSE x

\* Redis compares members of equal score byte by byte
RECURSIVE LexLess(_, _)
LexLess(a, b) ==
    IF Len(a) = 0 THEN Len(b) > 0
    ELSE IF Len(b) = 0 THEN FALSE
    ELSE a[1] < b[1] \/ (a[1] = b[1] /\ LexLess(Tail(a), Tail(b)))

ZLess(z, a, b) == z[a] < z[b] \/ (z[a] = z[b] /\ LexLess(a, b))

RECURSIVE ZRangeOf(_, _)
ZRangeOf(z, S) ==
    IF S = {} THEN <<>>
    ELSE LET m == CHOOSE a \in S : \A b \in S \ {a} : ZLess(z, a, b)
         IN <<m>> \o ZRangeOf(z, S \ {m})

\* a range that orders the members by their bytes alone
RECURSIVE ZRangeByMember(_)
ZRangeByMember(z) ==
    IF DOMAIN z = {} THEN <<>>
    ELSE LET m == CHOOSE a \in DOMAIN z : \A b \in DOMAIN z \ {a} : LexLess(a, b)
         IN <<m>> \o ZRangeByMember([x \in DOMAIN z \ {m} |-> z[x]])

\* ZRANGE key 0 -1: the members by ascending score
ZRange(z) == ZRangeOf(z, DOMAIN z)

\* ZADD key score member
ZAdd(z, m, s) == [x \in DOMAIN z \cup {m} |-> IF x = m THEN s ELSE z[x]]

\* HSET key field value; a missing key is created with that field alone
HSet(hs, key, field, value) ==
    IF key \in DOMAIN hs
    THEN [hs EXCEPT ![key] =
            [f \in DOMAIN hs[key] \cup {field} |->
                IF f = field THEN value ELSE hs[key][f]]]
    ELSE [k \in DOMAIN hs \cup {key} |->
            IF k = key THEN [f \in {field} |-> value] ELSE hs[k]]

\* HSET key mapping=token_data; the client writes an int as its decimal
\* string
HSetMapping(hs, key, mapping) ==
    [k \in DOMAIN hs \cup {key} |->
        IF k = key
        THEN [mapping EXCEPT
                !.token_number = Str(@),
                !.patient_id = Str(@),
                !.appointment_id = IF @ = EmptyStr THEN @ ELSE Str(@[1])]
        ELSE hs[k]]

\* a sequencer that is advanced twice for one check-in
IncrTwice(c) == c + 2

\* INCR of the counter key: the value it stores and returns
Incr(c) == c + 1

\* datetime.utcnow(): the clock does not run backwards.  Instants matter
\* only through their order, so a read returns the last instant read or
\* the next one, and the first read returns instant 0.
UtcNow(last) == {t \in {last, last + 1} : 0 <= t /\ t <= MaxTime}

\* `appointment_id or ""`; an Optional[int] is None or the boxed integer
OrEmptyStr(a) == IF a = None \/ a = <<0>> THEN EmptyStr ELSE a

\* str(b) of a bool
StrBool(b) == IF b THEN "True" ELSE "False"

\* the token_data dict check_in builds and stores, from its frame l
TokenData(l) ==
    [token_number |-> l.token_number,
     patient_id |-> l.patient_id,
     patient_name |-> l.patient_name,
     appointment_id |-> OrEmptyStr(l.appointment_id),
     status |-> "WAITING",
     checkin_time |-> IsoFormat(l.now),
     called_time |-> EmptyStr,
     completed_time |-> EmptyStr,
     is_walk_in |-> StrBool(l.is_walk_in)]

\* a parse that reads the flag as written by a JSON encoder
ParseTokenLower(h) ==
    [token_number |-> ParseInt(h.token_number),
     patient_id |-> ParseInt(h.patient_id),
     patient_name |-> h.patient_name,
     appointment_id |-> IF h.appointment_id # EmptyStr
                        THEN <<ParseInt(h.appointment_id)>> ELSE None,
     status |-> h.status,
     checkin_time |-> h.checkin_time,
     called_time |-> OrNone(h.called_time),
     completed_time |-> OrNone(h.completed_time),
     is_walk_in |-> h.is_walk_in = "true"]

\* the dict get_today_queue and update_status build from HGETALL
ParseToken(h) ==
    [token_number |-> ParseInt(h.token_number),
     patient_id |-> ParseInt(h.patient_id),
     patient_name |-> h.patient_name,
     appointment_id |-> IF h.appointment_id # EmptyStr
                        THEN <<ParseInt(h.appointment_id)>> ELSE None,
     status |-> h.status,
     checkin_time |-> h.checkin_time,
     called_time |-> OrNone(h.called_time),
     completed_time |-> OrNone(h.completed_time),
     is_walk_in |-> h.is_walk_in = "True"]

\* a scan that keeps the last WAITING token instead of stopping at the first
LastWaiting(ts) ==
    IF \E i \in 1..Len(ts) : ts[i].status = "WAITING"
    THEN CHOOSE i \in 1..Len(ts) :
            /\ ts[i].status = "WAITING"
            /\ \A j \in (i + 1)..Len(ts) : ts[j].status # "WAITING"
    ELSE 0

\* a scan that also stops at a SKIPPED token
FirstWaitingOrSkipped(ts) ==
    IF \E i \in 1..Len(ts) : ts[i].status \in {"WAITING", "SKIPPED"}
    THEN CHOOSE i \in 1..Len(ts) :
            /\ ts[i].status \in {"WAITING", "SKIPPED"}
            /\ \A j \in 1..(i - 1) : ts[j].status \notin {"WAITING", "SKIPPED"}
    ELSE 0

\* `for token in tokens: if token["status"] == "WAITING"`: the index of the
\* first WAITING token of the list, 0 if there is none
FirstWaiting(ts) ==
    IF \E i \in 1..Len(ts) : ts[i].status = "WAITING"
    THEN CHOOSE i \in 1..Len(ts) :
            /\ ts[i].status = "WAITING"
            /\ \A j \in 1..(i - 1) : ts[j].status # "WAITING"
    ELSE 0

\* a clear that tests only that a pointer is set
IsSet(cur, n) == cur # None /\ cur # EmptyStr

\* `if current and int(current) == token_number`
IsCurrent(cur, n) == cur # None /\ cur # EmptyStr /\ ParseInt(cur) = n

\* ------------------------------------------------------------- state
VARIABLES
    counter,    \* queue:counter:<date>, 0 while the key is absent
    hashes,     \* queue:token:<date>:<n> -> the hash of token n
    queue,      \* queue:<date>: member -> score
    current,    \* queue:current:<date>, None while the key is absent
    clock,      \* the last instant datetime.utcnow() returned, -1 before the first
    ops,        \* the status requests started so far
    issued,     \* the numbers _get_next_token_number returned, in order
    appointments,   \* the appointments table: id -> row
    client,     \* what the caller of a sequence of requests remembers
    ttl,        \* per key, the instant its time to live was last set
    elsewhere,  \* the keys of the other queue dates: key -> value
    loc         \* each handler's position and local variables; solo: no
                \* other handler was in flight since its call_next started;
                \* ptr0: the pointer when its update_status request started;
                \* api: the route that called the service, code: its HTTP
                \* status, db_error: a database call of the route raised,
                \* today: the appointment asked for is dated today

vars == <<counter, hashes, queue, current, clock, ops, issued, appointments,
          client, ttl, elsewhere, loc>>

EmptyMap == [x \in {} |-> 0]

Idle ==
    [pc |-> "idle", op |-> "none", token_number |-> 0, new_status |-> "",
     now |-> 0, token_numbers |-> <<>>, tokens |-> <<>>,
     result |-> <<>>, solo |-> TRUE, ptr0 |-> None,
     appointment_id |-> None, api |-> "none", code |-> 0, db_error |-> FALSE,
     today |-> FALSE,
     patient_id |-> 0, patient_name |-> EmptyStr, is_walk_in |-> FALSE]

\* the caller follows no scenario
NoClient ==
    [phase |-> "free", calls |-> 0, expected |-> <<>>, token |-> 0,
     checkin_time |-> EmptyStr, position |-> 0, sent |-> <<>>,
     created |-> <<>>]

\* the times to live are not followed: no key expires
Unobserved == [observed |-> FALSE]

\* the times to live are followed and no key has one: -1; elapsed: the
\* keys whose time to live was set at this instant or before have expired
NoLifetimes ==
    [observed |-> TRUE, counter |-> -1, queue |-> -1, current |-> -1,
     token |-> [n \in 1..MaxTokens |-> -1], elapsed |-> -1]

\* EXPIRE key 86400 (or SET key value ex=86400) executed at instant t
Expire(tt, key, t) == IF tt.observed THEN [tt EXCEPT ![key] = t] ELSE tt

\* EXPIRE of the key of token n executed at instant t
ExpireTokenKey(tt, n, t) ==
    IF tt.observed THEN [tt EXCEPT !.token[n] = t] ELSE tt

InFlight(p) == loc[p].pc \notin {"idle", "done"}
NoneInFlight == \A p \in Procs : ~InFlight(p)

\* the state before the first request of the date, the times to live
\* followed (NoLifetimes) or not (Unobserved)
InitWith(tt) ==
    /\ counter = 0
    /\ hashes = EmptyMap
    /\ queue = EmptyMap
    /\ current = None
    /\ clock = -1
    /\ issued = <<>>
    /\ ops = 0
    /\ appointments = [a \in 1..MaxAppointments |-> [status |-> "scheduled"]]
    /\ client = NoClient
    /\ ttl = tt
    /\ elsewhere = EmptyMap
    /\ loc = [p \in Procs |-> Idle]

Init == InitWith(Unobserved)

\* a handler that starts while a call_next runs ends its running alone
Begin(p, fields) ==
    loc' = [q \in Procs |->
              IF q = p THEN fields
              ELSE IF InFlight(q) /\ loc[q].op = "call_next"
                   THEN [loc[q] EXCEPT !.solo = FALSE]
              ELSE loc[q]]

Store == <<counter, hashes, queue, current, ops>>

\* what a handler returns: no value (None) or one value
NoResult == <<>>
Some(x) == <<x>>

Goto(p, label) == loc' = [loc EXCEPT ![p].pc = label]

\* return: the frame's locals are gone, the caller holds the result; a
\* route that called the service goes on with its own parameters
Done(l, res) ==
    IF l.api = "none"
    THEN [Idle EXCEPT !.pc = "done", !.op = l.op, !.solo = l.solo,
                      !.ptr0 = l.ptr0, !.result = res]
    ELSE [Idle EXCEPT !.pc = "api_returned", !.op = l.op, !.solo = l.solo,
                      !.ptr0 = l.ptr0, !.result = res, !.api = l.api,
                      !.token_number = IF l.api = "update" THEN l.token_number ELSE 0,
                      !.new_status = IF l.api = "update" THEN l.new_status ELSE "",
                      !.appointment_id = l.appointment_id]

\* every response has been delivered
AllDelivered == \A q \in Procs : loc[q].pc # "done"

\* handlers are interchangeable: a request is served by the first free one
Free(p) ==
    /\ AllDelivered
    /\ loc[p].pc = "idle"
    /\ p = CHOOSE q \in Procs : loc[q].pc = "idle"

\* ------------------------------------------------------------- check_in
\* the frame of check_in(queue_date, patient_id, patient_name, is_walk_in)
CheckInFrame(patient_id, patient_name, is_walk_in) ==
    [Idle EXCEPT !.pc = "ci_incr", !.op = "check_in",
                 !.patient_id = patient_id, !.patient_name = patient_name,
                 !.is_walk_in = is_walk_in]

\* check_in for patient 1
StartCheckIn(p) ==
    /\ loc[p].pc = "idle"
    /\ counter + Cardinality({q \in Procs : loc[q].pc = "ci_incr"}) < MaxTokens
    /\ Begin(p, CheckInFrame(1, <<1>>, FALSE))
    /\ UNCHANGED <<Store, clock, issued, appointments, client, ttl, elsewhere>>

\* a sequencer that reads the counter and adds one without storing it
CiIncrNoStore(p) ==
    /\ loc[p].pc = "ci_incr"
    /\ issued' = Append(issued, counter + 1)
    /\ loc' = [loc EXCEPT ![p].pc = "ci_expire_counter",
                          ![p].token_number = counter + 1]
    /\ UNCHANGED <<counter, hashes, queue, current, clock, ops, appointments, client, ttl, elsewhere>>

\* token_number = await self.redis.incr(counter_key)
CiIncr(p) ==
    /\ loc[p].pc = "ci_incr"
    /\ counter' = Incr(counter)
    /\ issued' = Append(issued, counter')
    /\ loc' = [loc EXCEPT ![p].pc = "ci_expire_counter",
                          ![p].token_number = counter']
    /\ UNCHANGED <<hashes, queue, current, clock, ops, appointments, client, ttl, elsewhere>>

\* await self.redis.expire(counter_key, 86400); checkin_time = utcnow():
\* one step, at the instant read
CiExpireCounter(p) ==
    /\ loc[p].pc = "ci_expire_counter"
    /\ \E t \in UtcNow(clock) :
        /\ clock' = t
        /\ ttl' = Expire(ttl, "counter", t)
        /\ loc' = [loc EXCEPT ![p].pc = "ci_hset", ![p].now = t]
    /\ UNCHANGED <<Store, issued, appointments, client, elsewhere>>

\* a check_in that enters the token into the index and then writes its record
CiHSetAfterIndex(p) ==
    /\ loc[p].pc = "ci_hset"
    /\ IF Str(loc[p].token_number) \notin DOMAIN queue
       THEN /\ queue' = ZAdd(queue, Str(loc[p].token_number),
                             Timestamp(loc[p].now))
            /\ UNCHANGED <<hashes, loc>>
       ELSE /\ hashes' = HSetMapping(hashes, loc[p].token_number,
                                     TokenData(loc[p]))
            /\ Goto(p, "ci_expire_token")
            /\ UNCHANGED queue
    /\ UNCHANGED <<counter, current, clock, ops, issued, appointments, client, ttl, elsewhere>>

\* await self.redis.hset(token_key, mapping=token_data)
CiHSet(p) ==
    /\ loc[p].pc = "ci_hset"
    /\ hashes' = HSetMapping(hashes, loc[p].token_number, TokenData(loc[p]))
    /\ Goto(p, "ci_expire_token")
    /\ UNCHANGED <<counter, queue, current, clock, ops, issued, appointments, client, ttl, elsewhere>>

\* await self.redis.expire(token_key, 86400)
CiExpireToken(p) ==
    /\ loc[p].pc = "ci_expire_token"
    /\ ttl' = ExpireTokenKey(ttl, loc[p].token_number, clock)
    /\ Goto(p, "ci_zadd")
    /\ UNCHANGED <<Store, clock, issued, appointments, client, elsewhere>>

\* await self.redis.zadd(queue_key, {str(token_number): checkin_timestamp})
CiZAdd(p) ==
    /\ loc[p].pc = "ci_zadd"
    /\ queue' = ZAdd(queue, Str(loc[p].token_number), Timestamp(loc[p].now))
    /\ Goto(p, "ci_expire_queue")
    /\ UNCHANGED <<counter, hashes, current, clock, ops, issued, appointments, client, ttl, elsewhere>>

\* await self.redis.expire(queue_key, 86400); return token_data
CiExpireQueue(p) ==
    /\ loc[p].pc = "ci_expire_queue"
    /\ ttl' = Expire(ttl, "queue", clock)
    /\ loc' = [loc EXCEPT ![p] =
                 Done(loc[p], Some(TokenData(loc[p])))]
    /\ UNCHANGED <<Store, clock, issued, appointments, client, elsewhere>>

\* ------------------------------------------------------------- update_status
\* the frame of update_status(queue_date, n, s)
UpdateStatusFrame(n, s) ==
    [Idle EXCEPT !.pc = "us_exists", !.op = "update_status",
                 !.token_number = n, !.new_status = s, !.ptr0 = current]

StartUpdateStatus(p, n, s) ==
    /\ loc[p].pc = "idle"
    /\ ops < MaxOps
    /\ ops' = ops + 1
    /\ Begin(p, UpdateStatusFrame(n, s))
    /\ UNCHANGED <<counter, hashes, queue, current, clock, issued, appointments, client, ttl, elsewhere>>

\* skip_patient
StartSkip(p, n) == StartUpdateStatus(p, n, "SKIPPED")

\* recall_patient
StartRecall(p, n) == StartUpdateStatus(p, n, "WAITING")

\* an update that does not look whether the token exists
UsExistsSkipped(p) ==
    /\ loc[p].pc = "us_exists"
    /\ Goto(p, "us_hset_status")
    /\ UNCHANGED <<Store, clock, issued, appointments, client, ttl, elsewhere>>

\* an update that refuses a token whose consultation is over
UsExistsTerminal(p) ==
    /\ loc[p].pc = "us_exists"
    /\ IF /\ loc[p].token_number \in DOMAIN hashes
          /\ hashes[loc[p].token_number].status \notin {"COMPLETED", "NO_SHOW"}
       THEN Goto(p, "us_hset_status")
       ELSE loc' = [loc EXCEPT ![p] = Done(loc[p], NoResult)]
    /\ UNCHANGED <<Store, clock, issued, appointments, client, ttl, elsewhere>>

\* exists = await self.redis.exists(token_key); if not exists: return None
UsExists(p) ==
    /\ loc[p].pc = "us_exists"
    /\ IF loc[p].token_number \in DOMAIN hashes
       THEN Goto(p, "us_hset_status")
       ELSE loc' = [loc EXCEPT ![p] = Done(loc[p], NoResult)]
    /\ UNCHANGED <<Store, clock, issued, appointments, client, ttl, elsewhere>>

\* a recall that also enters the token into the index anew, behind all others
UsHSetStatusRequeue(p) ==
    /\ loc[p].pc = "us_hset_status"
    /\ hashes' = HSet(hashes, loc[p].token_number, "status", loc[p].new_status)
    /\ queue' = IF loc[p].new_status = "WAITING"
                THEN ZAdd(queue, Str(loc[p].token_number), MaxTime + 1)
                ELSE queue
    /\ Goto(p, "us_now")
    /\ UNCHANGED <<counter, current, clock, ops, issued, appointments, client, ttl, elsewhere>>

\* await self.redis.hset(token_key, "status", new_status)
UsHSetStatus(p) ==
    /\ loc[p].pc = "us_hset_status"
    /\ hashes' = HSet(hashes, loc[p].token_number, "status", loc[p].new_status)
    /\ Goto(p, "us_now")
    /\ UNCHANGED <<counter, queue, current, clock, ops, issued, appointments, client, ttl, elsewhere>>

\* now = datetime.utcnow().isoformat() and the branch on new_status; the
\* frame keeps now while a later step reads it
UsNow(p) ==
    /\ loc[p].pc = "us_now"
    /\ \E t \in UtcNow(clock) :
        /\ clock' = t
        /\ loc' = [loc EXCEPT ![p] =
                     IF loc[p].new_status = "WITH_DOCTOR"
                        THEN [loc[p] EXCEPT !.pc = "us_hset_called", !.now = t]
                     ELSE IF loc[p].new_status \in {"COMPLETED", "NO_SHOW"}
                        THEN [loc[p] EXCEPT !.pc = "us_hset_completed", !.now = t]
                     ELSE [loc[p] EXCEPT !.pc = "us_hgetall"]]
    /\ UNCHANGED <<Store, issued, appointments, client, ttl, elsewhere>>

\* an update that writes called_time only the first time the token is called
UsHSetCalledOnce(p) ==
    /\ loc[p].pc = "us_hset_called"
    /\ hashes' = IF hashes[loc[p].token_number].called_time = EmptyStr
                 THEN HSet(hashes, loc[p].token_number, "called_time",
                           IsoFormat(loc[p].now))
                 ELSE hashes
    /\ loc' = [loc EXCEPT ![p].pc = "us_set_current", ![p].now = 0]
    /\ UNCHANGED <<counter, queue, current, clock, ops, issued, appointments, client, ttl, elsewhere>>

\* an update that leaves called_time as it was
UsHSetCalledSkipped(p) ==
    /\ loc[p].pc = "us_hset_called"
    /\ Goto(p, "us_set_current")
    /\ UNCHANGED <<Store, clock, issued, appointments, client, ttl, elsewhere>>

\* an update that writes the call instant into the field checkin_time
UsHSetCalledAsCheckin(p) ==
    /\ loc[p].pc = "us_hset_called"
    /\ hashes' = HSet(hashes, loc[p].token_number, "checkin_time",
                      IsoFormat(loc[p].now))
    /\ loc' = [loc EXCEPT ![p].pc = "us_set_current", ![p].now = 0]
    /\ UNCHANGED <<counter, queue, current, clock, ops, issued, appointments, client, ttl, elsewhere>>

\* await self.redis.hset(token_key, "called_time", now)
UsHSetCalled(p) ==
    /\ loc[p].pc = "us_hset_called"
    /\ hashes' = HSet(hashes, loc[p].token_number, "called_time",
                      IsoFormat(loc[p].now))
    /\ loc' = [loc EXCEPT ![p].pc = "us_set_current", ![p].now = 0]
    /\ UNCHANGED <<counter, queue, current, clock, ops, issued, appointments, client, ttl, elsewhere>>

\* an update that leaves the pointer as it was
UsSetCurrentSkipped(p) ==
    /\ loc[p].pc = "us_set_current"
    /\ Goto(p, "us_hgetall")
    /\ UNCHANGED <<Store, clock, issued, appointments, client, ttl, elsewhere>>

\* await self.redis.set(current_key, token_number, ex=86400)
UsSetCurrent(p) ==
    /\ loc[p].pc = "us_set_current"
    /\ current' = Str(loc[p].token_number)
    /\ ttl' = Expire(ttl, "current", clock)
    /\ Goto(p, "us_hgetall")
    /\ UNCHANGED <<counter, hashes, queue, clock, ops, issued, appointments, client, elsewhere>>

\* a completion that also takes the token out of the check-in order index
UsHSetCompletedRemoves(p) ==
    /\ loc[p].pc = "us_hset_completed"
    /\ hashes' = HSet(hashes, loc[p].token_number, "completed_time",
                      IsoFormat(loc[p].now))
    /\ queue' = [m \in DOMAIN queue \ {Str(loc[p].token_number)} |-> queue[m]]
    /\ loc' = [loc EXCEPT ![p].pc = "us_get_current", ![p].now = 0]
    /\ UNCHANGED <<counter, current, clock, ops, issued, appointments, client, ttl, elsewhere>>

\* await self.redis.hset(token_key, "completed_time", now)
UsHSetCompleted(p) ==
    /\ loc[p].pc = "us_hset_completed"
    /\ hashes' = HSet(hashes, loc[p].token_number, "completed_time",
                      IsoFormat(loc[p].now))
    /\ loc' = [loc EXCEPT ![p].pc = "us_get_current", ![p].now = 0]
    /\ UNCHANGED <<counter, queue, current, clock, ops, issued, appointments, client, ttl, elsewhere>>

\* current = await self.redis.get(current_key) and the test on it
UsGetCurrent(p) ==
    /\ loc[p].pc = "us_get_current"
    /\ Goto(p, IF IsCurrent(current, loc[p].token_number)
               THEN "us_delete" ELSE "us_hgetall")
    /\ UNCHANGED <<Store, clock, issued, appointments, client, ttl, elsewhere>>

\* a completion that clears the pointer by writing 0 to it
UsDeleteWritesZero(p) ==
    /\ loc[p].pc = "us_delete"
    /\ current' = Str(0)
    /\ ttl' = Expire(ttl, "current", clock)
    /\ Goto(p, "us_hgetall")
    /\ UNCHANGED <<counter, hashes, queue, clock, ops, issued, appointments, client, elsewhere>>

\* await self.redis.delete(current_key)
UsDelete(p) ==
    /\ loc[p].pc = "us_delete"
    /\ current' = None
    /\ ttl' = Expire(ttl, "current", -1)
    /\ Goto(p, "us_hgetall")
    /\ UNCHANGED <<counter, hashes, queue, clock, ops, issued, appointments, client, elsewhere>>

\* token_data = await self.redis.hgetall(token_key); return {...}
UsHGetAll(p) ==
    /\ loc[p].pc = "us_hgetall"
    /\ loc' = [loc EXCEPT ![p] =
                 Done(loc[p], Some(ParseToken(hashes[loc[p].token_number])))]
    /\ UNCHANGED <<Store, clock, issued, appointments, client, ttl, elsewhere>>

\* ------------------------------------------------------------- call_next_patient
\* the frame of call_next_patient(queue_date), entering get_today_queue
CallNextFrame(p) ==
    [Idle EXCEPT !.pc = "gq_zrange", !.op = "call_next",
                 !.solo = \A q \in Procs \ {p} : ~InFlight(q)]

StartCallNext(p) ==
    /\ loc[p].pc = "idle"
    /\ ops < MaxOps
    /\ ops' = ops + 1
    /\ Begin(p, CallNextFrame(p))
    /\ UNCHANGED <<counter, hashes, queue, current, clock, issued, appointments, client, ttl, elsewhere>>

\* the loop of call_next_patient over the list get_today_queue returned:
\* update_status on the first WAITING token, else return None
CallNextLoop(l, ts) ==
    LET i == FirstWaiting(ts) IN
    IF i = 0
    THEN Done(l, NoResult)
    ELSE [l EXCEPT !.pc = "us_exists", !.token_numbers = <<>>, !.tokens = <<>>,
                   !.token_number = ts[i].token_number,
                   !.new_status = "WITH_DOCTOR"]

\* get_today_queue returns its list: to the loop of call_next_patient, or
\* to the caller that asked for the list
GqReturn(l, ts) ==
    IF l.op = "call_next" THEN CallNextLoop(l, ts)
    ELSE IF l.op = "summary"
         THEN [l EXCEPT !.pc = "qs_get_current", !.token_numbers = <<>>,
                        !.tokens = ts]
    ELSE Done(l, Some(ts))

\* get_today_queue called for the list itself
StartListToday(p) ==
    /\ loc[p].pc = "idle"
    /\ Begin(p, [Idle EXCEPT !.pc = "gq_zrange", !.op = "list_today"])
    /\ UNCHANGED <<Store, clock, issued, appointments, client, ttl, elsewhere>>

\* token_numbers = await self.redis.zrange(queue_key, 0, -1)
GqZRange(p) ==
    /\ loc[p].pc = "gq_zrange"
    /\ LET nums == ZRange(queue) IN
       loc' = [loc EXCEPT ![p] =
                 IF nums = <<>> THEN GqReturn(loc[p], <<>>)
                 ELSE [loc[p] EXCEPT !.pc = "gq_hgetall", !.token_numbers = nums]]
    /\ UNCHANGED <<Store, clock, issued, appointments, client, ttl, elsewhere>>

\* a loop that ends at the first member without record
GqHGetAllStops(p) ==
    /\ loc[p].pc = "gq_hgetall"
    /\ LET key == ParseInt(Head(loc[p].token_numbers))
           rest == Tail(loc[p].token_numbers)
           ts == IF key \in DOMAIN hashes
                 THEN Append(loc[p].tokens, ParseToken(hashes[key]))
                 ELSE loc[p].tokens
       IN loc' = [loc EXCEPT ![p] =
                    IF rest = <<>> \/ key \notin DOMAIN hashes
                    THEN GqReturn(loc[p], ts)
                    ELSE [loc[p] EXCEPT !.token_numbers = rest, !.tokens = ts]]
    /\ UNCHANGED <<Store, clock, issued, appointments, client, ttl, elsewhere>>

\* token_data = await self.redis.hgetall(token_key) for the next member
GqHGetAll(p) ==
    /\ loc[p].pc = "gq_hgetall"
    /\ LET key == ParseInt(Head(loc[p].token_numbers))
           rest == Tail(loc[p].token_numbers)
           ts == IF key \in DOMAIN hashes
                 THEN Append(loc[p].tokens, ParseToken(hashes[key]))
                 ELSE loc[p].tokens
       IN loc' = [loc EXCEPT ![p] =
                    IF rest = <<>> THEN GqReturn(loc[p], ts)
                    ELSE [loc[p] EXCEPT !.token_numbers = rest, !.tokens = ts]]
    /\ UNCHANGED <<Store, clock, issued, appointments, client, ttl, elsewhere>>

\* the response is sent; the handler's frame is gone
Return(p) ==
    /\ loc[p].pc = "done"
    /\ loc' = [loc EXCEPT ![p] = Idle]
    /\ UNCHANGED <<Store, clock, issued, appointments, client, ttl, elsewhere>>

\* get_current_serving: one GET
GetCurrentServing == IF current # None /\ current # EmptyStr
                     THEN Some(ParseInt(current)) ELSE NoResult

\* ------------------------------------------------------------- specifications
Step(p) ==
    \/ CiIncr(p) \/ CiExpireCounter(p) \/ CiHSet(p) \/ CiExpireToken(p)
    \/ CiZAdd(p) \/ CiExpireQueue(p)
    \/ UsExists(p) \/ UsHSetStatus(p) \/ UsNow(p) \/ UsHSetCalled(p)
    \/ UsSetCurrent(p) \/ UsHSetCompleted(p) \/ UsGetCurrent(p) \/ UsDelete(p)
    \/ UsHGetAll(p)
    \/ GqZRange(p) \/ GqHGetAll(p)
    \/ Return(p)

Start(p) ==
    \/ StartCheckIn(p)
    \/ StartCallNext(p)
    \/ \E n \in 1..MaxTokens, s \in Statuses : StartUpdateStatus(p, n, s)
    \/ \E n \in 1..MaxTokens : StartSkip(p, n)
    \/ \E n \in 1..MaxTokens : StartRecall(p, n)

\* handlers interleave at every awaited store call
Next == \E p \in Procs : (Free(p) /\ Start(p)) \/ Step(p)

Spec == Init /\ [][Next]_vars

\* one request at a time: a handler starts when no other is in flight
NextSeq == \E p \in Procs : (Free(p) /\ NoneInFlight /\ Start(p)) \/ Step(p)

SpecSeq == Init /\ [][NextSeq]_vars

\* every other handler in flight runs operation o
OthersRun(p, o) == \A q \in Procs \ {p} : InFlight(q) => loc[q].op = o

\* update_status, skip and recall, each started with nothing else in flight
StartStatusAlone(p) ==
    \/ NoneInFlight /\ \E n \in 1..MaxTokens, s \in Statuses : StartUpdateStatus(p, n, s)
    \/ NoneInFlight /\ \E n \in 1..MaxTokens : StartSkip(p, n)
    \/ NoneInFlight /\ \E n \in 1..MaxTokens : StartRecall(p, n)

\* check_ins overlap with check_ins; every other request runs alone
NextCheckInRace ==
    \E p \in Procs :
        \/ Free(p) /\ OthersRun(p, "check_in") /\ StartCheckIn(p)
        \/ Free(p) /\ NoneInFlight /\ StartCallNext(p)
        \/ Free(p) /\ StartStatusAlone(p)
        \/ Step(p)

SpecCheckInRace == Init /\ [][NextCheckInRace]_vars

\* call_nexts overlap with call_nexts; every other request runs alone
NextCallNextRace ==
    \E p \in Procs :
        \/ Free(p) /\ NoneInFlight /\ StartCheckIn(p)
        \/ Free(p) /\ OthersRun(p, "call_next") /\ StartCallNext(p)
        \/ Free(p) /\ StartStatusAlone(p)
        \/ Step(p)

SpecCallNextRace == Init /\ [][NextCallNextRace]_vars

\* the status changes of the intended state machine that callers request
\* through update_status, skip and recall; WITH_DOCTOR is entered through
\* call_next
IntendedTransitions ==
    {<<"WAITING", "SKIPPED">>, <<"WAITING", "NO_SHOW">>,
     <<"WITH_DOCTOR", "COMPLETED">>, <<"WITH_DOCTOR", "NO_SHOW">>,
     <<"SKIPPED", "WAITING">>}

IntendedRequest(n, s) ==
    n \in DOMAIN hashes => <<hashes[n].status, s>> \in IntendedTransitions

StartIntended(p) ==
    \/ StartCheckIn(p)
    \/ StartCallNext(p)
    \/ \E n \in 1..MaxTokens, s \in Statuses :
          IntendedRequest(n, s) /\ StartUpdateStatus(p, n, s)
    \/ \E n \in 1..MaxTokens : IntendedRequest(n, "SKIPPED") /\ StartSkip(p, n)
    \/ \E n \in 1..MaxTokens : IntendedRequest(n, "WAITING") /\ StartRecall(p, n)

\* one request at a time, every status change one of the intended ones
NextIntended ==
    \E p \in Procs :
        (Free(p) /\ NoneInFlight /\ StartIntended(p)) \/ Step(p)

SpecIntended == Init /\ [][NextIntended]_vars

\* ------------------------------------------------------------- properties
Tokens == DOMAIN hashes
WaitingTokens == {n \in Tokens : hashes[n].status = "WAITING"}
WithDoctorTokens == {n \in Tokens : hashes[n].status = "WITH_DOCTOR"}
\* the check-in instant of token n: its score in the check-in order index
CheckinInstant(n) == queue[Str(n)]

\* a call_next that ran alone has scanned the queue and chosen its token
PickedAlone(p) ==
    loc[p].op = "call_next" /\ loc[p].solo /\ loc[p].pc = "us_exists"

\* a call_next that ran alone has returned None
NoneAlone(p) ==
    /\ loc[p].op = "call_next" /\ loc[p].solo
    /\ loc[p].pc = "done" /\ loc[p].result = NoResult

Returned(p, o) ==
    loc[p].pc = "done" /\ loc[p].op = o /\ loc[p].result # NoResult

\* C1 as stated: a call_next that runs with no other operation in flight
\* chooses the lowest-numbered WAITING token, and returns none only when no
\* token is WAITING.
C1_LowestNumbered ==
    \A p \in Procs :
        /\ PickedAlone(p) =>
              /\ loc[p].token_number \in WaitingTokens
              /\ \A n \in WaitingTokens : loc[p].token_number <= n
        /\ NoneAlone(p) => WaitingTokens = {}

\* C1 amended: a call_next that runs with no other operation in flight
\* chooses a WAITING token that no WAITING token precedes in the check-in
\* order index (none has a smaller check-in instant), and returns none only
\* when no token is WAITING.
C1_EarliestCheckedIn ==
    \A p \in Procs :
        /\ PickedAlone(p) =>
              /\ loc[p].token_number \in WaitingTokens
              /\ \A n \in WaitingTokens :
                    CheckinInstant(loc[p].token_number) <= CheckinInstant(n)
        /\ NoneAlone(p) => WaitingTokens = {}

\* C1 witness: a call_next running alone chose a token although a
\* lower-numbered token, checked in later, is WAITING.
C1_Witness ==
    \E p \in Procs :
        /\ PickedAlone(p)
        /\ \E n \in WaitingTokens :
              /\ n < loc[p].token_number
              /\ CheckinInstant(loc[p].token_number) < CheckinInstant(n)

\* C2: when a call_next that ran with no other operation in flight returns
\* token t, t is stored WITH_DOCTOR with a called_time and the pointer is t.
C2_CallNextPostcondition ==
    \A p \in Procs :
        Returned(p, "call_next") =>
            LET t == loc[p].result[1].token_number IN
            /\ hashes[t].status = "WITH_DOCTOR"
            /\ hashes[t].called_time # EmptyStr
            /\ current = Str(t)

\* C2 witness: a call_next has returned the second token.
C2_Witness ==
    \E p \in Procs :
        /\ Returned(p, "call_next")
        /\ loc[p].result[1].token_number = 2

\* C3: the numbers the sequencer hands out are pairwise distinct, also to
\* check_ins that run at the same time.
C3_DistinctNumbers ==
    /\ \A i, j \in DOMAIN issued : i # j => issued[i] # issued[j]
    /\ \A p, q \in Procs :
          (/\ p # q
           /\ loc[p].op = "check_in" /\ loc[p].token_number # 0
           /\ loc[q].op = "check_in" /\ loc[q].token_number # 0)
          => loc[p].token_number # loc[q].token_number

\* C3 witness: two check_ins are in flight together, each holding its number.
C3_Witness ==
    \E p, q \in Procs :
        /\ p # q
        /\ loc[p].op = "check_in" /\ loc[p].pc = "ci_expire_counter"
        /\ loc[q].op = "check_in" /\ loc[q].pc = "ci_expire_counter"

\* C4: check_ins executed one after another return 1, 2, ..., N in call order,
\* whatever status operations run between them.
C4_DenseNumbers ==
    /\ \A i \in DOMAIN issued : issued[i] = i
    /\ \A p \in Procs :
          Returned(p, "check_in") =>
              loc[p].result[1].token_number = Len(issued)

\* C4 witness: the second check_in returns after status operations ran.
C4_Witness ==
    \E p \in Procs :
        /\ Returned(p, "check_in")
        /\ Len(issued) = 2
        /\ ops > 0

\* two call_next calls have both returned token t
BothReturned(p, q, t) ==
    /\ p # q
    /\ Returned(p, "call_next") /\ loc[p].result[1].token_number = t
    /\ Returned(q, "call_next") /\ loc[q].result[1].token_number = t

\* C5: two concurrent call_next calls can both return the same token; each
\* of them has then written it, so it carries a called_time in the store and
\* in both results.
C5_BothWin ==
    \A p, q \in Procs : \A t \in Tokens :
        BothReturned(p, q, t) =>
            /\ hashes[t].called_time # EmptyStr
            /\ loc[p].result[1].called_time # None
            /\ loc[q].result[1].called_time # None

\* C5 witness: on a queue whose only token was WAITING, two call_next calls
\* and nothing else ran, and both returned that token as WITH_DOCTOR.
C5_Witness ==
    \E p, q \in Procs :
        /\ Tokens = {1} /\ counter = 1 /\ ops = 2
        /\ BothReturned(p, q, 1)
        /\ loc[p].result[1].status = "WITH_DOCTOR"
        /\ loc[q].result[1].status = "WITH_DOCTOR"

\* the pointer names a token
PointerSet == current # None

\* C6: with one request at a time and only intended status changes, at most
\* one token is WITH_DOCTOR.
C6_AtMostOneWithDoctor ==
    NoneInFlight => Cardinality(WithDoctorTokens) <= 1

\* C7: with one request at a time, a set pointer names a token that is
\* WITH_DOCTOR, so get_current_serving returns none when no token is.
C7_PointerNamesWithDoctor ==
    NoneInFlight =>
        /\ PointerSet => ParseInt(current) \in WithDoctorTokens
        /\ WithDoctorTokens = {} => GetCurrentServing = NoResult

\* C8: with one request at a time, the pointer is set whenever some token is
\* WITH_DOCTOR.
C8_WithDoctorHasPointer ==
    NoneInFlight => (WithDoctorTokens # {} => GetCurrentServing # NoResult)

\* C9: the delete of update_status(t, COMPLETED or NO_SHOW) removes the
\* pointer only while the pointer holds t.
C9_ClearOnlyIfEquals ==
    [][\A p \in Procs :
          (loc[p].pc = "us_delete" /\ loc'[p].pc = "us_hgetall" /\ PointerSet)
          => ParseInt(current) = loc[p].token_number]_vars

\* an update_status(t, COMPLETED or NO_SHOW) on an existing token returned
Completed(p) ==
    /\ Returned(p, "update_status")
    /\ loc[p].result[1].status \in {"COMPLETED", "NO_SHOW"}

\* C10: executed alone, update_status(t, COMPLETED or NO_SHOW) leaves the
\* pointer absent when it was t and leaves it u when it was another number u.
C10_ClearIfEquals ==
    \A p \in Procs :
        Completed(p) =>
            LET t == loc[p].result[1].token_number IN
            /\ loc[p].ptr0 = Str(t) => current = None
            /\ (loc[p].ptr0 # None /\ loc[p].ptr0 # Str(t)) => current = loc[p].ptr0

\* C10 witness: a token was completed while the pointer held another number.
C10_Witness ==
    \E p \in Procs :
        /\ Completed(p)
        /\ loc[p].ptr0 # None
        /\ loc[p].ptr0 # Str(loc[p].result[1].token_number)

\* ------------------------------------------------------------- draining the queue
\* the token numbers in the order get_today_queue lists them
IndexOrder == [i \in 1..Len(ZRange(queue)) |-> ParseInt(ZRange(queue)[i])]

\* the WAITING tokens in that order
WaitingInOrder == SelectSeq(IndexOrder, LAMBDA n : n \in WaitingTokens)

\* the caller starts to drain a queue that has no pointer: it notes the
\* WAITING tokens and calls call_next
DrainBegin(p) ==
    /\ client.phase = "free"
    /\ current = None
    /\ loc[p].pc = "idle"
    /\ client' = [NoClient EXCEPT !.phase = "drain", !.calls = 1,
                                  !.expected = WaitingInOrder]
    /\ Begin(p, CallNextFrame(p))
    /\ UNCHANGED <<Store, clock, issued, appointments, ttl, elsewhere>>

\* call_next returned a token: the caller marks it COMPLETED
DrainComplete(p) ==
    /\ client.phase = "drain"
    /\ Returned(p, "call_next")
    /\ loc' = [loc EXCEPT ![p] =
                 UpdateStatusFrame(loc[p].result[1].token_number, "COMPLETED")]
    /\ UNCHANGED <<Store, clock, issued, appointments, client, ttl, elsewhere>>

\* the token is COMPLETED: the caller calls call_next again
DrainCallNext(p) ==
    /\ client.phase = "drain"
    /\ Returned(p, "update_status")
    /\ client' = [client EXCEPT !.calls = @ + 1]
    /\ loc' = [loc EXCEPT ![p] = CallNextFrame(p)]
    /\ UNCHANGED <<Store, clock, issued, appointments, ttl, elsewhere>>

\* check_ins that may overlap, then status requests one at a time, then one
\* caller drains the queue with nothing else running
NextDrain ==
    \E p \in Procs :
        \/ /\ client.phase = "free" /\ Free(p)
           /\ \/ ops = 0 /\ OthersRun(p, "check_in") /\ StartCheckIn(p)
              \/ ops < MaxPrefixOps /\ NoneInFlight /\ StartCallNext(p)
              \/ ops < MaxPrefixOps /\ StartStatusAlone(p)
        \/ Free(p) /\ NoneInFlight /\ DrainBegin(p)
        \/ DrainComplete(p)
        \/ DrainCallNext(p)
        \/ Step(p)

SpecDrain == Init /\ [][NextDrain]_vars

\* C11: while a caller drains the queue with (call_next; mark the returned
\* token COMPLETED), its i-th call_next returns the i-th of the tokens that
\* were WAITING at the start, in check-in order, and the call after the
\* last of them returns none.
C11_DrainInOrder ==
    \A p \in Procs :
        (client.phase = "drain" /\ loc[p].pc = "done" /\ loc[p].op = "call_next")
        => IF client.calls <= Len(client.expected)
           THEN /\ loc[p].result # NoResult
                /\ loc[p].result[1].token_number = client.expected[client.calls]
           ELSE loc[p].result = NoResult

\* C11 witness: two tokens were WAITING, the later-numbered first in
\* check-in order; the third call_next of the drain has returned none.
C11_Witness ==
    \E p \in Procs :
        /\ client.phase = "drain" /\ client.expected = <<2, 1>>
        /\ client.calls = 3
        /\ loc[p].pc = "done" /\ loc[p].op = "call_next"
        /\ loc[p].result = NoResult

\* ------------------------------------------------------------- frame properties
\* C12: no step of any operation changes the checkin_time of a stored token
\* or the score of a member of the check-in order index.
C12_CheckinTimeFixed ==
    [][/\ \A n \in Tokens : hashes'[n].checkin_time = hashes[n].checkin_time
       /\ \A m \in DOMAIN queue : m \in DOMAIN queue' /\ queue'[m] = queue[m]]_vars

\* C12 witness: a token that was called and completed at a later instant
\* than its check-in has been recalled, and holds its check-in instant.
C12_Witness ==
    \E n \in Tokens :
        /\ hashes[n].status = "WAITING"
        /\ hashes[n].called_time # EmptyStr
        /\ hashes[n].completed_time # EmptyStr
        /\ hashes[n].completed_time # hashes[n].checkin_time
        /\ Str(n) \in DOMAIN queue
        /\ IsoFormat(queue[Str(n)]) = hashes[n].checkin_time

\* ------------------------------------------------------------- listing the queue
\* check_ins overlap with check_ins; the list is read at any moment, and
\* every request may run while it is read
NextListRace ==
    \E p \in Procs :
        \/ Free(p) /\ StartListToday(p)
        \/ /\ Free(p)
           /\ \A q \in Procs \ {p} :
                 InFlight(q) => loc[q].op \in {"check_in", "list_today"}
           /\ StartCheckIn(p)
        \/ Free(p) /\ OthersRun(p, "list_today") /\ StartCallNext(p)
        \/ /\ Free(p) /\ OthersRun(p, "list_today")
           /\ \/ \E n \in 1..MaxTokens, s \in Statuses : StartUpdateStatus(p, n, s)
              \/ \E n \in 1..MaxTokens : StartSkip(p, n)
              \/ \E n \in 1..MaxTokens : StartRecall(p, n)
        \/ Step(p)

SpecListRace == Init /\ [][NextListRace]_vars

\* datetime.fromisoformat(token["checkin_time"])
Instant(iso) == iso[1]

PositionOf(n) == CHOOSE i \in 1..Len(IndexOrder) : IndexOrder[i] = n

\* the caller skips token n and notes its checkin_time and its place
RecallSkip(p, n) ==
    /\ client.phase = "free"
    /\ n \in Tokens
    /\ loc[p].pc = "idle"
    /\ client' = [NoClient EXCEPT !.phase = "skip", !.token = n,
                                  !.checkin_time = hashes[n].checkin_time,
                                  !.position = PositionOf(n)]
    /\ Begin(p, UpdateStatusFrame(n, "SKIPPED"))
    /\ UNCHANGED <<Store, clock, issued, appointments, ttl, elsewhere>>

\* skip returned: the caller recalls the token
RecallRecall(p) ==
    /\ client.phase = "skip"
    /\ Returned(p, "update_status")
    /\ client' = [client EXCEPT !.phase = "recall"]
    /\ loc' = [loc EXCEPT ![p] = UpdateStatusFrame(client.token, "WAITING")]
    /\ UNCHANGED <<Store, clock, issued, appointments, ttl, elsewhere>>

\* recall returned: the caller calls call_next
RecallCallNext(p) ==
    /\ client.phase = "recall"
    /\ Returned(p, "update_status")
    /\ client' = [client EXCEPT !.phase = "call_next"]
    /\ loc' = [loc EXCEPT ![p] = CallNextFrame(p)]
    /\ UNCHANGED <<Store, clock, issued, appointments, ttl, elsewhere>>

\* check_ins that may overlap, then status requests one at a time, then one
\* caller runs skip(t), recall(t), call_next with nothing else running
NextRecall ==
    \E p \in Procs :
        \/ /\ client.phase = "free" /\ Free(p)
           /\ \/ ops = 0 /\ OthersRun(p, "check_in") /\ StartCheckIn(p)
              \/ ops < MaxPrefixOps /\ NoneInFlight /\ StartCallNext(p)
              \/ ops < MaxPrefixOps /\ StartStatusAlone(p)
        \/ Free(p) /\ NoneInFlight /\ \E n \in 1..MaxTokens : RecallSkip(p, n)
        \/ RecallRecall(p)
        \/ RecallCallNext(p)
        \/ Step(p)

SpecRecall == Init /\ [][NextRecall]_vars

\* C14: when recall(t) returns after skip(t), t is WAITING with the
\* checkin_time and the place in the list it had before the skip; the
\* call_next that follows chooses no token listed after t, and chooses t
\* when no WAITING token is listed before t.
C14_RecallKeepsPlace ==
    \A p \in Procs :
        /\ (client.phase = "recall" /\ loc[p].pc = "done") =>
              /\ loc[p].result # NoResult
              /\ loc[p].result[1].status = "WAITING"
              /\ hashes[client.token].status = "WAITING"
              /\ hashes[client.token].checkin_time = client.checkin_time
              /\ loc[p].result[1].checkin_time = client.checkin_time
              /\ PositionOf(client.token) = client.position
        /\ (client.phase = "call_next" /\ PickedAlone(p)) =>
              /\ PositionOf(loc[p].token_number) <= client.position
              /\ (\A u \in WaitingTokens : PositionOf(u) >= client.position)
                    => loc[p].token_number = client.token
        /\ (client.phase = "call_next" /\ loc[p].pc = "done") =>
              /\ loc[p].result # NoResult
              /\ PositionOf(loc[p].result[1].token_number) <= client.position

\* C14 witness: after skip and recall of the token listed first, call_next
\* returned it while the token listed after it is WAITING.
C14_Witness ==
    \E p \in Procs :
        /\ client.phase = "call_next" /\ client.position = 1
        /\ Returned(p, "call_next")
        /\ loc[p].result[1].token_number = client.token
        /\ \E u \in WaitingTokens : PositionOf(u) > client.position

\* ------------------------------------------------------------- routes of /queue
\* raise HTTPException(status_code): the response carries no token
Raise(l, status_code) ==
    [Idle EXCEPT !.pc = "done", !.op = l.op, !.api = l.api, !.code = status_code]

\* POST /queue/walk-in
ApiWalkIn(p) ==
    /\ loc[p].pc = "idle"
    /\ counter < MaxTokens
    /\ Begin(p, [Idle EXCEPT !.pc = "api_select_patient", !.op = "check_in",
                             !.api = "walk_in"])
    /\ UNCHANGED <<Store, clock, issued, appointments, client, ttl, elsewhere>>

\* POST /queue/checkin/{appointment_id}; whether the appointment's date is
\* the day of the request is given with the request
ApiCheckInAppointment(p, a) ==
    /\ loc[p].pc = "idle"
    /\ counter < MaxTokens
    /\ \E today \in BOOLEAN :
          Begin(p, [Idle EXCEPT !.pc = "api_select_appointment",
                                !.op = "check_in", !.api = "check_in",
                                !.appointment_id = <<a>>, !.today = today])
    /\ UNCHANGED <<Store, clock, issued, appointments, client, ttl, elsewhere>>

\* a route that does not look at the status of the appointment
ApiSelectAppointmentAgain(p) ==
    /\ loc[p].pc = "api_select_appointment"
    /\ LET a == loc[p].appointment_id[1] IN
          loc' = [loc EXCEPT ![p] =
                    IF a \notin DOMAIN appointments THEN Raise(loc[p], 404)
                    ELSE IF ~loc[p].today THEN Raise(loc[p], 400)
                    ELSE [loc[p] EXCEPT !.pc = "api_select_patient"]]
    /\ UNCHANGED <<Store, clock, issued, appointments, client, ttl, elsewhere>>

\* select(Appointment) and the checks on the row
ApiSelectAppointment(p) ==
    /\ loc[p].pc = "api_select_appointment"
    /\ LET a == loc[p].appointment_id[1] IN
          loc' = [loc EXCEPT ![p] =
                    IF a \notin DOMAIN appointments THEN Raise(loc[p], 404)
                    ELSE IF ~loc[p].today THEN Raise(loc[p], 400)
                    ELSE IF appointments[a].status = "checked_in"
                         THEN Raise(loc[p], 400)
                    ELSE [loc[p] EXCEPT !.pc = "api_select_patient"]]
    /\ UNCHANGED <<Store, clock, issued, appointments, client, ttl, elsewhere>>

\* select(Patient); the service is called for a patient that exists
ApiSelectPatient(p) ==
    /\ loc[p].pc = "api_select_patient"
    /\ \E found \in BOOLEAN :
          loc' = [loc EXCEPT ![p] =
                    IF found
                    THEN [loc[p] EXCEPT !.pc = "ci_incr", !.patient_id = 1,
                                        !.patient_name = <<1>>,
                                        !.is_walk_in = (loc[p].api = "walk_in")]
                    ELSE Raise(loc[p], 404)]
    /\ UNCHANGED <<Store, clock, issued, appointments, client, ttl, elsewhere>>

\* POST /queue/next
ApiNext(p) ==
    /\ loc[p].pc = "idle"
    /\ ops < MaxOps
    /\ ops' = ops + 1
    /\ Begin(p, [CallNextFrame(p) EXCEPT !.api = "next"])
    /\ UNCHANGED <<counter, hashes, queue, current, clock, issued, appointments, client, ttl, elsewhere>>

\* PATCH /queue/{token_number}/status
ApiUpdateStatus(p, n, s) ==
    /\ loc[p].pc = "idle"
    /\ ops < MaxOps
    /\ ops' = ops + 1
    /\ Begin(p, [UpdateStatusFrame(n, s) EXCEPT !.api = "update"])
    /\ UNCHANGED <<counter, hashes, queue, current, clock, issued, appointments, client, ttl, elsewhere>>

\* POST /queue/skip/{token_number}
ApiSkip(p, n) ==
    /\ loc[p].pc = "idle"
    /\ ops < MaxOps
    /\ ops' = ops + 1
    /\ Begin(p, [UpdateStatusFrame(n, "SKIPPED") EXCEPT !.api = "skip"])
    /\ UNCHANGED <<counter, hashes, queue, current, clock, issued, appointments, client, ttl, elsewhere>>

\* `if not token_data: raise HTTPException(404)`
ApiRaiseNotFound(p) ==
    /\ loc[p].pc = "api_returned"
    /\ loc[p].result = NoResult
    /\ loc' = [loc EXCEPT ![p] = Raise(loc[p], 404)]
    /\ UNCHANGED <<Store, clock, issued, appointments, client, ttl, elsewhere>>

\* `if token_data.get("appointment_id")` in call_next_patient and
\* update_token_status
Linked(l) ==
    /\ l.api \in {"next", "update"}
    /\ l.result # NoResult
    /\ l.result[1].appointment_id # None

\* the route returns the token: QueueTokenResponse(...)
Respond(l) ==
    [Idle EXCEPT !.pc = "done", !.op = l.op, !.api = l.api, !.code = 200,
                 !.result = l.result]

\* a route that has nothing to write to the appointment returns the token
ApiRespond(p) ==
    /\ loc[p].pc = "api_returned"
    /\ loc[p].result # NoResult
    /\ loc[p].api \in {"walk_in", "skip"}
       \/ (loc[p].api \in {"next", "update"} /\ ~Linked(loc[p]))
    /\ loc' = [loc EXCEPT ![p] = Respond(loc[p])]
    /\ UNCHANGED <<Store, clock, issued, appointments, client, ttl, elsewhere>>

\* select(Appointment) for the token's appointment_id; `if appointment:`
ApiSelectLinked(p) ==
    /\ loc[p].pc = "api_returned"
    /\ Linked(loc[p])
    /\ loc' = [loc EXCEPT ![p] =
                 IF loc[p].result[1].appointment_id[1] \in DOMAIN appointments
                 THEN [loc[p] EXCEPT !.pc = "api_commit",
                                     !.appointment_id = loc[p].result[1].appointment_id]
                 ELSE Respond(loc[p])]
    /\ UNCHANGED <<Store, clock, issued, appointments, client, ttl, elsewhere>>

\* a mirroring that leaves the appointment of a NO_SHOW token as it was
MirroredStatusNoShowKept(l, old) ==
    IF l.api = "check_in" THEN "checked_in"
    ELSE IF l.api = "next" THEN "with_doctor"
    ELSE IF l.new_status = "WITH_DOCTOR" THEN "with_doctor"
    ELSE IF l.new_status = "COMPLETED" THEN "completed"
    ELSE old

\* the status the route assigns to the appointment row
MirroredStatus(l, old) ==
    IF l.api = "check_in" THEN "checked_in"
    ELSE IF l.api = "next" THEN "with_doctor"
    ELSE IF l.new_status = "WITH_DOCTOR" THEN "with_doctor"
    ELSE IF l.new_status = "COMPLETED" THEN "completed"
    ELSE IF l.new_status = "NO_SHOW" THEN "cancelled"
    ELSE old

\* the route is about to await db.commit()
AtCommit(l) ==
    \/ l.pc = "api_commit"
    \/ l.pc = "api_returned" /\ l.api = "check_in"

\* appointment.status = ...; await db.commit(); return the token
ApiCommit(p) ==
    /\ AtCommit(loc[p])
    /\ LET a == loc[p].appointment_id[1] IN
       appointments' = [appointments EXCEPT
                          ![a].status = MirroredStatus(loc[p], @)]
    /\ loc' = [loc EXCEPT ![p] = Respond(loc[p])]
    /\ UNCHANGED <<Store, clock, issued, client, ttl, elsewhere>>

\* a failed write-back that also takes back the pointer
ApiDbFailsRollback(p) ==
    /\ \/ loc[p].pc \in {"api_select_appointment", "api_select_patient"}
       \/ loc[p].pc = "api_returned" /\ Linked(loc[p])
       \/ AtCommit(loc[p])
    /\ current' = None
    /\ loc' = [loc EXCEPT ![p] =
                 [Raise(loc[p], 500) EXCEPT
                    !.db_error = TRUE,
                    !.new_status = loc[p].new_status,
                    !.token_number = IF loc[p].result # NoResult
                                     THEN loc[p].result[1].token_number ELSE 0]]
    /\ UNCHANGED <<counter, hashes, queue, ops, clock, issued, appointments, client, ttl, elsewhere>>

\* db.execute or db.commit raises: nothing catches it, the route answers 500
\* and nothing of the session is committed; token_number: the token the
\* service had returned, 0 if it had not been called
ApiDbFails(p) ==
    /\ \/ loc[p].pc \in {"api_select_appointment", "api_select_patient"}
       \/ loc[p].pc = "api_returned" /\ Linked(loc[p])
       \/ AtCommit(loc[p])
    /\ loc' = [loc EXCEPT ![p] =
                 [Raise(loc[p], 500) EXCEPT
                    !.db_error = TRUE,
                    !.new_status = loc[p].new_status,
                    !.token_number = IF loc[p].result # NoResult
                                     THEN loc[p].result[1].token_number ELSE 0]]
    /\ UNCHANGED <<Store, clock, issued, appointments, client, ttl, elsewhere>>

ApiStep(p) ==
    \/ ApiSelectAppointment(p) \/ ApiSelectPatient(p)
    \/ ApiRaiseNotFound(p) \/ ApiRespond(p) \/ ApiSelectLinked(p)
    \/ ApiCommit(p) \/ ApiDbFails(p)

ApiStart(p) ==
    \/ ApiWalkIn(p)
    \/ \E a \in 1..(MaxAppointments + 1) : ApiCheckInAppointment(p, a)
    \/ ApiNext(p)
    \/ \E n \in 1..MaxTokens, s \in Statuses : ApiUpdateStatus(p, n, s)
    \/ \E n \in 1..MaxTokens : ApiSkip(p, n)
    \/ \E n \in 1..MaxTokens : StartRecall(p, n)

\* the routes called one request at a time, and recall_patient, which no
\* route calls
NextApi ==
    \E p \in Procs :
        (Free(p) /\ NoneInFlight /\ ApiStart(p)) \/ Step(p) \/ ApiStep(p)

SpecApi == Init /\ [][NextApi]_vars

\* C15: an update_status, skip or recall that finds no record for its token
\* number returns none without a write, whatever status was requested, and
\* the route answers 404 without a write.
C15_NotFoundChangesNothing ==
    [][\A p \in Procs :
          /\ (/\ loc[p].op = "update_status" /\ loc[p].pc = "us_exists"
              /\ loc[p].token_number \notin Tokens)
             => /\ UNCHANGED <<counter, hashes, queue, current>>
                /\ loc'[p].pc \in {"us_exists", "done", "api_returned"}
                /\ loc'[p].pc # "us_exists" => loc'[p].result = NoResult
          /\ (/\ loc[p].op = "update_status" /\ loc[p].pc = "api_returned"
              /\ loc[p].result = NoResult)
             => /\ UNCHANGED <<counter, hashes, queue, current>>
                /\ loc'[p].pc \in {"api_returned", "done"}
                /\ loc'[p].pc = "done" => loc'[p].code = 404]_vars

\* C15 witness: a PATCH to WITH_DOCTOR for a number without record has come
\* back from the service with none, on a queue that holds a token and a
\* pointer.
C15_Witness ==
    \E p \in Procs :
        /\ loc[p].pc = "api_returned" /\ loc[p].api = "update"
        /\ loc[p].result = NoResult
        /\ loc[p].new_status = "WITH_DOCTOR"
        /\ loc[p].token_number \notin Tokens
        /\ Tokens # {} /\ PointerSet

\* C16: a call_next that runs while no token is WAITING returns none without
\* a write, and the route answers 404 without a write.
C16_NoWaitingChangesNothing ==
    [][\A p \in Procs :
          /\ (/\ loc[p].op = "call_next"
              /\ loc[p].pc \in {"gq_zrange", "gq_hgetall"}
              /\ WaitingTokens = {})
             => /\ UNCHANGED <<counter, hashes, queue, current>>
                /\ loc'[p].pc \in {"gq_zrange", "gq_hgetall", "done", "api_returned"}
                /\ loc'[p].pc \in {"done", "api_returned"}
                      => loc'[p].result = NoResult
          /\ (/\ loc[p].op = "call_next" /\ loc[p].pc = "api_returned"
              /\ loc[p].result = NoResult)
             => /\ UNCHANGED <<counter, hashes, queue, current>>
                /\ loc'[p].pc \in {"api_returned", "done"}
                /\ loc'[p].pc = "done" => loc'[p].code = 404]_vars

\* C16 witness: POST /queue/next has answered 404 on a queue whose tokens
\* are SKIPPED and WITH_DOCTOR.
C16_Witness ==
    \E p \in Procs :
        /\ loc[p].pc = "done" /\ loc[p].api = "next" /\ loc[p].code = 404
        /\ \E n \in Tokens : hashes[n].status = "SKIPPED"
        /\ \E n \in Tokens : hashes[n].status = "WITH_DOCTOR"

\* a database call of the route raised after the service had returned token t
WriteBackFailed(p) ==
    loc[p].pc = "done" /\ loc[p].db_error /\ loc[p].token_number # 0

\* C19: when the write-back to the appointment fails, the token record, its
\* index entry, the counter and the pointer hold what the service wrote.
C19_NoRollback ==
    \A p \in Procs :
        WriteBackFailed(p) =>
            LET t == loc[p].token_number
                s == loc[p].new_status
            IN
            /\ t \in Tokens /\ Str(t) \in DOMAIN queue /\ t <= counter
            /\ loc[p].api = "check_in" => hashes[t].status = "WAITING"
            /\ loc[p].api = "next" =>
                  /\ hashes[t].status = "WITH_DOCTOR"
                  /\ hashes[t].called_time # EmptyStr
                  /\ current = Str(t)
            /\ loc[p].api = "update" =>
                  /\ hashes[t].status = s
                  /\ s = "WITH_DOCTOR" =>
                        hashes[t].called_time # EmptyStr /\ current = Str(t)
                  /\ s \in {"COMPLETED", "NO_SHOW"} =>
                        hashes[t].completed_time # EmptyStr /\ current # Str(t)

\* C19 witness: POST /queue/next called a token of an appointment and the
\* write-back failed.
C19_Witness ==
    \E p \in Procs : WriteBackFailed(p) /\ loc[p].api = "next"

\* C20: when the write-back to the appointment fails after call next or
\* update token status changed the queue, the route still answers with
\* success and the token.
C20_FailureNotSurfaced ==
    \A p \in Procs :
        (WriteBackFailed(p) /\ loc[p].api \in {"next", "update"})
        => loc[p].code = 200 /\ loc[p].result # NoResult

\* ------------------------------------------------------------- any status to any status
\* C17: update_status on an existing token goes on to the write whatever the
\* stored status is, stores the requested status, and returns the token
\* with that status.
C17_NoPreviousStatusCheck ==
    [][\A p \in Procs :
          (loc[p].op = "update_status" /\ loc[p].token_number \in Tokens) =>
             LET n == loc[p].token_number
                 s == loc[p].new_status
             IN
             /\ loc[p].pc = "us_exists"
                   => loc'[p].pc \in {"us_exists", "us_hset_status"}
             /\ (loc[p].pc = "us_hset_status" /\ loc'[p].pc # "us_hset_status")
                   => hashes'[n].status = s
             /\ loc'[p].pc = "done"
                   => /\ loc'[p].result # NoResult
                      /\ loc'[p].result[1].status = s
                      /\ hashes'[n].status = s]_vars

\* C17 witness: call_next has returned a token that was COMPLETED before and
\* had been set back to WAITING.
C17_Witness ==
    \E p \in Procs :
        /\ Returned(p, "call_next")
        /\ loc[p].result[1].status = "WITH_DOCTOR"
        /\ loc[p].result[1].completed_time # None

\* ------------------------------------------------------------- an aborted check_in
\* check_in holds the number n it was given and has not returned
Holds(p, n) ==
    /\ loc[p].op = "check_in" /\ loc[p].token_number = n
    /\ loc[p].pc \notin {"idle", "done", "api_returned"}

\* an abort that gives the number back to the counter
CiAbortRelease(p) ==
    /\ loc[p].op = "check_in"
    /\ loc[p].pc \in {"ci_expire_counter", "ci_hset"}
    /\ counter' = counter - 1
    /\ loc' = [loc EXCEPT ![p] = Idle]
    /\ UNCHANGED <<hashes, queue, current, clock, ops, issued, appointments, client, ttl, elsewhere>>

\* the caller is cancelled, or the store raises, at an await between INCR
\* and the write of the record: check_in ends there and writes nothing
CiAbort(p) ==
    /\ loc[p].op = "check_in"
    /\ loc[p].pc \in {"ci_expire_counter", "ci_hset"}
    /\ loc' = [loc EXCEPT ![p] = Idle]
    /\ UNCHANGED <<Store, clock, issued, appointments, client, ttl, elsewhere>>

\* requests served one at a time, where a check_in may be aborted
NextAbort ==
    \E p \in Procs :
        \/ Free(p) /\ NoneInFlight /\ Start(p)
        \/ Step(p)
        \/ CiAbort(p)

SpecAbort == Init /\ [][NextAbort]_vars

\* C18: the numbers handed out grow strictly; every check_in is given the
\* counter's value plus one and the counter never goes back; a number that
\* was handed out and has neither a record nor a check_in holding it stays
\* without both.
C18_NeverReissued ==
    [][/\ \A i, j \in DOMAIN issued' : i < j => issued'[i] < issued'[j]
       /\ counter' >= counter
       /\ \A p \in Procs :
             (loc[p].pc = "ci_incr" /\ loc'[p].pc # "ci_incr")
             => loc'[p].token_number = counter + 1 /\ counter' = counter + 1
       /\ \A n \in 1..counter :
             (n \notin Tokens /\ \A p \in Procs : ~Holds(p, n))
             => /\ n \notin DOMAIN hashes'
                /\ Str(n) \notin DOMAIN queue'
                /\ \A p \in Procs :
                      ~(loc'[p].op = "check_in" /\ loc'[p].token_number = n)]_vars

\* C18 witness: the check_in given number 1 was aborted before it wrote the
\* record, the next check_in has returned token 2, and a status request ran.
C18_Witness ==
    /\ issued = <<1, 2>>
    /\ 1 \notin Tokens /\ 2 \in Tokens
    /\ Str(2) \in DOMAIN queue
    /\ ops > 0
    /\ NoneInFlight

\* ------------------------------------------------------------- check-in of an appointment
\* the request of handler p asks for an appointment that the route refuses
Refused(p) ==
    LET a == loc[p].appointment_id[1] IN
    \/ a \notin DOMAIN appointments
    \/ ~loc[p].today
    \/ appointments[a].status = "checked_in"

\* C21: the step that looks up the appointment of a check-in request
\* writes nothing; a request for a missing appointment ends there with
\* 404, one for an appointment of another day or already CHECKED_IN with
\* 400 (unless the lookup itself raises), and counter, token records,
\* index and appointments are as before the request.
C21_RefusedBeforeMutation ==
    [][\A p \in Procs :
          /\ (loc[p].pc = "idle" /\ loc'[p].pc = "api_select_appointment")
             => UNCHANGED <<counter, hashes, queue, current, appointments>>
          /\ loc[p].pc = "api_select_appointment"
             => /\ UNCHANGED <<counter, hashes, queue, current, appointments>>
                /\ (Refused(p) /\ loc'[p] # loc[p])
                   => /\ loc'[p].pc = "done"
                      /\ ~loc'[p].db_error
                         => loc'[p].code =
                              IF loc[p].appointment_id[1] \notin DOMAIN appointments
                              THEN 404 ELSE 400]_vars

\* C21 witness: a second check-in request for the appointment that is
\* CHECKED_IN and holds token 1 was answered 400.
C21_Witness ==
    \E p \in Procs :
        /\ loc[p].pc = "done" /\ loc[p].api = "check_in" /\ loc[p].code = 400
        /\ appointments[1].status = "checked_in"
        /\ counter = 1 /\ Tokens = {1}

\* C22: no two tokens carry the same appointment_id.
C22_OneTokenPerAppointment ==
    \A m, n \in Tokens :
        (m # n /\ hashes[m].appointment_id # EmptyStr)
        => hashes[m].appointment_id # hashes[n].appointment_id

\* ------------------------------------------------------------- mirroring to the appointment
\* the token the service returned to handler p carries an appointment_id
ReturnedLinked(p) ==
    /\ loc[p].pc \in {"api_returned", "api_commit"}
    /\ loc[p].result # NoResult
    /\ loc[p].result[1].appointment_id # None

\* C23: when PATCH status answers 200 for a token linked to an existing
\* appointment, that row's status is with_doctor for WITH_DOCTOR, completed
\* for COMPLETED, cancelled for NO_SHOW and as before for WAITING and
\* SKIPPED, and no other row changes; the appointments change in no step
\* other than the commit of an appointment check-in or of call next or
\* update status for a linked token.
C23_MirroredStatus ==
    [][/\ \A p \in Procs :
             (/\ loc[p].api = "update" /\ ReturnedLinked(p)
              /\ loc[p].result[1].appointment_id[1] \in DOMAIN appointments
              /\ loc'[p].pc = "done" /\ loc'[p].code = 200)
             => LET a == loc[p].result[1].appointment_id[1]
                    s == loc[p].new_status
                IN appointments' =
                     [appointments EXCEPT ![a].status =
                        CASE s = "WITH_DOCTOR" -> "with_doctor"
                          [] s = "COMPLETED" -> "completed"
                          [] s = "NO_SHOW" -> "cancelled"
                          [] OTHER -> @]
       /\ appointments' # appointments
             => \E p \in Procs :
                   \/ loc[p].api = "check_in" /\ loc[p].pc = "api_returned"
                   \/ loc[p].api \in {"next", "update"} /\ ReturnedLinked(p)]_vars

\* C23 witness: PATCH status NO_SHOW answered 200 and the appointment is
\* cancelled, while a walk-in token is in the queue as well.
C23_Witness ==
    \E p \in Procs :
        /\ loc[p].pc = "done" /\ loc[p].api = "update" /\ loc[p].code = 200
        /\ loc[p].result[1].status = "NO_SHOW"
        /\ loc[p].result[1].appointment_id # None
        /\ appointments[1].status = "cancelled"
        /\ \E n \in Tokens : hashes[n].appointment_id = EmptyStr

\* ------------------------------------------------------------- get_queue_summary
\* the number of tokens of the list whose status is in S
CountStatus(ts, S) == Cardinality({i \in 1..Len(ts) : ts[i].status \in S})

\* a summary whose total leaves out the tokens that did not show
QueueSummaryShownOnly(ts, cur) ==
    [total_tokens |-> Len(ts) - CountStatus(ts, {"NO_SHOW"}),
     waiting |-> CountStatus(ts, {"WAITING"}),
     with_doctor |-> CountStatus(ts, {"WITH_DOCTOR"}),
     completed |-> CountStatus(ts, {"COMPLETED"}),
     skipped |-> CountStatus(ts, {"SKIPPED"}),
     no_show |-> CountStatus(ts, {"NO_SHOW"}),
     checked_in |-> CountStatus(ts, {"WAITING"}) + CountStatus(ts, {"WITH_DOCTOR"}),
     current_token |-> cur,
     tokens |-> ts]

\* a summary that counts as checked in every token that is not COMPLETED
QueueSummaryNotCompleted(ts, cur) ==
    [total_tokens |-> Len(ts),
     waiting |-> CountStatus(ts, {"WAITING"}),
     with_doctor |-> CountStatus(ts, {"WITH_DOCTOR"}),
     completed |-> CountStatus(ts, {"COMPLETED"}),
     skipped |-> CountStatus(ts, {"SKIPPED"}),
     no_show |-> CountStatus(ts, {"NO_SHOW"}),
     checked_in |-> Len(ts) - CountStatus(ts, {"COMPLETED"}),
     current_token |-> cur,
     tokens |-> ts]

\* the summary dict: the counts of the loop over tokens, and
\* summary["checked_in"] = summary["waiting"] + summary["with_doctor"]
QueueSummary(ts, cur) ==
    LET waiting == CountStatus(ts, {"WAITING"})
        with_doctor == CountStatus(ts, {"WITH_DOCTOR"})
    IN
    [total_tokens |-> Len(ts),
     waiting |-> waiting,
     with_doctor |-> with_doctor,
     completed |-> CountStatus(ts, {"COMPLETED"}),
     skipped |-> CountStatus(ts, {"SKIPPED"}),
     no_show |-> CountStatus(ts, {"NO_SHOW"}),
     checked_in |-> waiting + with_doctor,
     current_token |-> cur,
     tokens |-> ts]

\* get_queue_summary(queue_date), entering get_today_queue
StartQueueSummary(p) ==
    /\ loc[p].pc = "idle"
    /\ Begin(p, [Idle EXCEPT !.pc = "gq_zrange", !.op = "summary"])
    /\ UNCHANGED <<Store, clock, issued, appointments, client, ttl, elsewhere>>

\* "current_token": await self.get_current_serving(queue_date), then the
\* counting loop and the return
QsGetCurrent(p) ==
    /\ loc[p].pc = "qs_get_current"
    /\ loc' = [loc EXCEPT ![p] =
                 Done(loc[p], Some(QueueSummary(loc[p].tokens, GetCurrentServing)))]
    /\ UNCHANGED <<Store, clock, issued, appointments, client, ttl, elsewhere>>

\* check_in, update_status and get_queue_summary, one request at a time
NextSummary ==
    \E p \in Procs :
        \/ Free(p) /\ NoneInFlight /\ StartCheckIn(p)
        \/ /\ Free(p) /\ NoneInFlight
           /\ \E n \in 1..MaxTokens, s \in Statuses : StartUpdateStatus(p, n, s)
        \/ Free(p) /\ NoneInFlight /\ StartQueueSummary(p)
        \/ Step(p)
        \/ QsGetCurrent(p)

SpecSummary == Init /\ [][NextSummary]_vars

\* C24: in every summary returned, checked_in is waiting + with_doctor,
\* both counted over the summary's own token list, so it is the number of
\* listed tokens that are WAITING or WITH_DOCTOR.
C24_CheckedIn ==
    \A p \in Procs :
        Returned(p, "summary") =>
            LET r == loc[p].result[1] IN
            /\ r.checked_in = r.waiting + r.with_doctor
            /\ r.waiting = CountStatus(r.tokens, {"WAITING"})
            /\ r.with_doctor = CountStatus(r.tokens, {"WITH_DOCTOR"})
            /\ r.checked_in = CountStatus(r.tokens, {"WAITING", "WITH_DOCTOR"})

\* C24 witness: a summary of a WITH_DOCTOR token and a SKIPPED token reports
\* one checked in of two.
C24_Witness ==
    \E p \in Procs :
        /\ Returned(p, "summary")
        /\ loc[p].result[1].total_tokens = 2
        /\ loc[p].result[1].skipped = 1
        /\ loc[p].result[1].checked_in = 1
        /\ loc[p].result[1].with_doctor = 1

\* ------------------------------------------------------------- status and its instant
\* a token as a reader got it has the instant that belongs to its status
Stamped(t) ==
    /\ t.status = "WITH_DOCTOR" => t.called_time # None
    /\ t.status \in {"COMPLETED", "NO_SHOW"} => t.completed_time # None

\* C30: every token in a list get_today_queue returned, and every token
\* update_status returned, has called_time when it is WITH_DOCTOR and
\* completed_time when it is COMPLETED or NO_SHOW.
C30_StatusWithInstant ==
    \A p \in Procs :
        /\ Returned(p, "list_today")
           => \A i \in 1..Len(loc[p].result[1]) : Stamped(loc[p].result[1][i])
        /\ Returned(p, "update_status") => Stamped(loc[p].result[1])

\* ------------------------------------------------------------- what check_in stored comes back
\* the patients the caller checks in: patient_id, patient_name, is_walk_in
CheckInInputs ==
    {[patient_id |-> 7, patient_name |-> <<1>>, is_walk_in |-> TRUE],
     [patient_id |-> 12, patient_name |-> <<2, 3>>, is_walk_in |-> FALSE]}

\* the caller calls check_in with x and remembers what it sent
RoundTripCheckIn(p, x) ==
    /\ loc[p].pc = "idle"
    /\ counter < MaxTokens
    /\ client' = [client EXCEPT !.phase = "round_trip", !.sent = <<x>>]
    /\ Begin(p, CheckInFrame(x.patient_id, x.patient_name, x.is_walk_in))
    /\ UNCHANGED <<Store, clock, issued, appointments, ttl, elsewhere>>

\* check_in returns: the caller notes the token number with what it sent
RoundTripReturn(p) ==
    /\ loc[p].pc = "done" /\ loc[p].op = "check_in"
    /\ client' = [client EXCEPT
                    !.sent = <<>>,
                    !.created = Append(@,
                        [token_number |-> loc[p].result[1].token_number,
                         patient_id |-> client.sent[1].patient_id,
                         patient_name |-> client.sent[1].patient_name,
                         is_walk_in |-> client.sent[1].is_walk_in])]
    /\ loc' = [loc EXCEPT ![p] = Idle]
    /\ UNCHANGED <<Store, clock, issued, appointments, ttl, elsewhere>>

\* check_in of the caller's patients, update_status and get_today_queue, one
\* request at a time
NextRoundTrip ==
    \E p \in Procs :
        \/ Free(p) /\ NoneInFlight /\ \E x \in CheckInInputs : RoundTripCheckIn(p, x)
        \/ /\ Free(p) /\ NoneInFlight /\ ops < MaxPrefixOps
           /\ \E n \in 1..MaxTokens, s \in Statuses : StartUpdateStatus(p, n, s)
        \/ Free(p) /\ NoneInFlight /\ StartListToday(p)
        \/ (loc[p].pc = "done" => loc[p].op # "check_in") /\ Step(p)
        \/ RoundTripReturn(p)

SpecRoundTrip == Init /\ [][NextRoundTrip]_vars

\* the token r a reader got is one the caller created, with the patient_id,
\* patient_name and is_walk_in the caller sent
AsSent(r) ==
    \E j \in 1..Len(client.created) :
        /\ client.created[j].token_number = r.token_number
        /\ client.created[j].patient_id = r.patient_id
        /\ client.created[j].patient_name = r.patient_name
        /\ client.created[j].is_walk_in = r.is_walk_in

\* C29: every token get_today_queue or update_status returns reports the
\* patient_id, patient_name and is_walk_in given to the check_in that
\* created it.
C29_RoundTrip ==
    \A p \in Procs :
        /\ Returned(p, "list_today")
           => \A i \in 1..Len(loc[p].result[1]) : AsSent(loc[p].result[1][i])
        /\ Returned(p, "update_status") => AsSent(loc[p].result[1])

\* C29 witness: the list holds a walk-in and a token that is none, after
\* status updates on both.
C29_Witness ==
    \E p \in Procs :
        /\ Returned(p, "list_today")
        /\ Len(loc[p].result[1]) = 2
        /\ \E i, j \in 1..2 :
              /\ loc[p].result[1][i].is_walk_in
              /\ loc[p].result[1][i].status = "COMPLETED"
              /\ ~loc[p].result[1][j].is_walk_in
              /\ loc[p].result[1][j].patient_id = 12
              /\ loc[p].result[1][j].status = "SKIPPED"

\* ------------------------------------------------------------- equal check-in instants
\* check_in on a day that reaches two-digit token numbers
TieCheckIn(p) ==
    /\ loc[p].pc = "idle"
    /\ counter < MaxTieTokens
    /\ Begin(p, CheckInFrame(1, <<1>>, FALSE))
    /\ UNCHANGED <<Store, clock, issued, appointments, client, ttl, elsewhere>>

\* check_in and get_today_queue, one request at a time
NextTie ==
    \E p \in Procs :
        \/ Free(p) /\ NoneInFlight /\ TieCheckIn(p)
        \/ Free(p) /\ NoneInFlight /\ StartListToday(p)
        \/ CiIncr(p) \/ CiExpireCounter(p) \/ CiHSet(p) \/ CiExpireToken(p)
        \/ CiZAdd(p) \/ CiExpireQueue(p)
        \/ GqZRange(p) \/ GqHGetAll(p)
        \/ Return(p)

SpecTie == Init /\ [][NextTie]_vars

\* C27: in every list get_today_queue returns, tokens of equal checkin_time
\* stand in ascending order of token_number.
C27_TiesByNumber ==
    \A p \in Procs :
        Returned(p, "list_today") =>
            LET ts == loc[p].result[1] IN
            \A i, j \in 1..Len(ts) :
                (i < j /\ ts[i].checkin_time = ts[j].checkin_time)
                => ts[i].token_number < ts[j].token_number

\* ------------------------------------------------------------- keys that expire
InitLifetimes == InitWith(NoLifetimes)

\* 86400 seconds have passed since instant d: every key whose time to live
\* was set at d or before is gone.  A request that is reading the list, or
\* whose answer is not yet delivered, has not run on one state of the keys
\* (solo is FALSE)
KeysExpire(d) ==
    LET Gone(t) == t # -1 /\ t <= d IN
    /\ ttl.observed /\ d > ttl.elapsed
    /\ \A q \in Procs : InFlight(q) => loc[q].op = "list_today"
    /\ \/ Gone(ttl.counter) \/ Gone(ttl.queue) \/ Gone(ttl.current)
       \/ \E n \in DOMAIN hashes : Gone(ttl.token[n])
    /\ counter' = IF Gone(ttl.counter) THEN 0 ELSE counter
    /\ queue' = IF Gone(ttl.queue) THEN EmptyMap ELSE queue
    /\ current' = IF Gone(ttl.current) THEN None ELSE current
    /\ hashes' = [n \in {m \in DOMAIN hashes : ~Gone(ttl.token[m])} |-> hashes[n]]
    /\ ttl' = [ttl EXCEPT
                 !.counter = IF Gone(@) THEN -1 ELSE @,
                 !.queue = IF Gone(@) THEN -1 ELSE @,
                 !.current = IF Gone(@) THEN -1 ELSE @,
                 !.token = [n \in DOMAIN @ |-> IF Gone(@[n]) THEN -1 ELSE @[n]],
                 !.elapsed = d]
    /\ loc' = [q \in Procs |->
                 IF loc[q].pc # "idle" THEN [loc[q] EXCEPT !.solo = FALSE]
                 ELSE loc[q]]
    /\ UNCHANGED <<clock, ops, issued, appointments, client, elsewhere>>

\* requests one at a time while keys expire; no check_in for the date once
\* a day has passed
NextExpiry ==
    \/ \E p \in Procs :
          \/ Free(p) /\ NoneInFlight /\ ttl.elapsed = -1 /\ StartCheckIn(p)
          \/ /\ Free(p) /\ NoneInFlight /\ ops < MaxPrefixOps
             /\ \E n \in 1..MaxTokens, s \in Statuses : StartUpdateStatus(p, n, s)
          \/ Free(p) /\ NoneInFlight /\ StartListToday(p)
          \/ Step(p)
    \/ \E d \in 0..MaxTime : KeysExpire(d)

SpecExpiry == InitLifetimes /\ [][NextExpiry]_vars

\* the tokens of the index whose record exists, in index order
ExistingInOrder ==
    LET nums == SelectSeq(ZRange(queue), LAMBDA m : ParseInt(m) \in DOMAIN hashes)
    IN [i \in 1..Len(nums) |-> ParseToken(hashes[ParseInt(nums[i])])]

\* C26: get_today_queue returns a list also when records of the index are
\* gone, and a call during which no key expired returns exactly the
\* tokens of the index whose record exists, in index order.
C26_MissingRecordsOmitted ==
    \A p \in Procs :
        (loc[p].pc = "done" /\ loc[p].op = "list_today")
        => /\ loc[p].result # NoResult
           /\ loc[p].solo => loc[p].result[1] = ExistingInOrder

\* C26 witness: the list was read while the index held two members and the
\* record of one of them had expired.
C26_Witness ==
    \E p \in Procs :
        /\ Returned(p, "list_today") /\ loc[p].solo
        /\ Cardinality(DOMAIN queue) = 2
        /\ Len(loc[p].result[1]) = 1

\* C28: while the counter key lives, later check_ins do not move the
\* instant at which its time to live was set.
C28_LifetimeFromFirst ==
    [][(ttl.observed /\ ttl.counter # -1 /\ ttl'.counter # -1)
       => ttl'.counter = ttl.counter]_vars

\* ------------------------------------------------------------- queue dates
\* A date is a record of year, month and day.  The handlers above run for
\* Today, whose four kinds of key are the variables counter, hashes, queue
\* and current; the keys of every other date are in elsewhere, by key name.
\* A character of a key is its code, a digit its value.
Today == [year |-> 2026, month |-> 1, day |-> 11]
OtherDates == {[year |-> 2026, month |-> 11, day |-> 1],
               [year |-> 2026, month |-> 1, day |-> 12]}

\* the decimal digits of n in at least w places
RECURSIVE ZeroPad(_, _)
ZeroPad(n, w) == IF w <= 1 THEN Str(n) ELSE
                 IF Len(Str(n)) >= w THEN Str(n) ELSE <<0>> \o ZeroPad(n, w - 1)

\* a date written as its numbers one after the other
IsoDateBare(d) == Str(d.year) \o Str(d.month) \o Str(d.day)

\* queue_date.isoformat(): YYYY-MM-DD
IsoDate(d) ==
    ZeroPad(d.year, 4) \o <<45>> \o ZeroPad(d.month, 2) \o <<45>> \o ZeroPad(d.day, 2)

\* f"queue:{queue_date.isoformat()}"
QueueKey(d) == <<113, 117, 101, 117, 101, 58>> \o IsoDate(d)

\* f"queue:token:{queue_date.isoformat()}:{token_number}"
TokenKey(d, n) ==
    <<113, 117, 101, 117, 101, 58, 116, 111, 107, 101, 110, 58>>
    \o IsoDate(d) \o <<58>> \o Str(n)

\* f"queue:counter:{queue_date.isoformat()}"
CounterKey(d) ==
    <<113, 117, 101, 117, 101, 58, 99, 111, 117, 110, 116, 101, 114, 58>>
    \o IsoDate(d)

\* f"queue:current:{queue_date.isoformat()}"
CurrentKey(d) ==
    <<113, 117, 101, 117, 101, 58, 99, 117, 114, 114, 101, 110, 116, 58>>
    \o IsoDate(d)

\* the keys of date d
KeysOf(d) ==
    {QueueKey(d), CounterKey(d), CurrentKey(d)}
    \cup {TokenKey(d, n) : n \in 1..MaxTokens}

\* a keyspace: GET with a default for the missing key, SET, DEL
KGet(ks, k, default) == IF k \in DOMAIN ks THEN ks[k] ELSE default
KSet(ks, k, x) == [j \in DOMAIN ks \cup {k} |-> IF j = k THEN x ELSE ks[j]]
KDel(ks, k) == [j \in DOMAIN ks \ {k} |-> ks[j]]

\* the whole keyspace of the Redis server: the keys of the other dates and
\* the keys of Today that exist
Keyspace ==
    LET present == {k \in KeysOf(Today) :
                      \/ k = CounterKey(Today) /\ counter # 0
                      \/ k = QueueKey(Today) /\ queue # EmptyMap
                      \/ k = CurrentKey(Today) /\ current # None
                      \/ \E n \in DOMAIN hashes : k = TokenKey(Today, n)}
    IN [k \in present \cup DOMAIN elsewhere |->
          IF k = CounterKey(Today) THEN counter
          ELSE IF k = QueueKey(Today) THEN queue
          ELSE IF k = CurrentKey(Today) THEN current
          ELSE IF \E n \in DOMAIN hashes : k = TokenKey(Today, n)
               THEN hashes[CHOOSE n \in DOMAIN hashes : k = TokenKey(Today, n)]
          ELSE elsewhere[k]]

\* the keyspace ks is the next state of the server
KeyspaceBecomes(ks) ==
    /\ counter' = KGet(ks, CounterKey(Today), 0)
    /\ queue' = KGet(ks, QueueKey(Today), EmptyMap)
    /\ current' = KGet(ks, CurrentKey(Today), None)
    /\ hashes' = [n \in {m \in 1..MaxTokens : TokenKey(Today, m) \in DOMAIN ks}
                   |-> ks[TokenKey(Today, n)]]
    /\ elsewhere' = [k \in DOMAIN ks \ KeysOf(Today) |-> ks[k]]

\* check_in(d, 1, "1") at instant t on the keyspace ks, all its commands
CheckInOn(ks, d, t) ==
    LET token_number == Incr(KGet(ks, CounterKey(d), 0))
        l == [CheckInFrame(1, <<1>>, FALSE) EXCEPT
                !.token_number = token_number, !.now = t]
        k1 == KSet(ks, CounterKey(d), token_number)
        k2 == KSet(k1, TokenKey(d, token_number),
                   HSetMapping(EmptyMap, 0, TokenData(l))[0])
    IN KSet(k2, QueueKey(d),
            ZAdd(KGet(k2, QueueKey(d), EmptyMap), Str(token_number), Timestamp(t)))

\* update_status(d, n, s) at instant t on the keyspace ks, all its commands
UpdateStatusOn(ks, d, n, s, t) ==
    LET key == TokenKey(d, n)
        h1 == [ks[key] EXCEPT !.status = s]
        h2 == IF s = "WITH_DOCTOR" THEN [h1 EXCEPT !.called_time = IsoFormat(t)]
              ELSE IF s \in {"COMPLETED", "NO_SHOW"}
                   THEN [h1 EXCEPT !.completed_time = IsoFormat(t)]
              ELSE h1
        k1 == KSet(ks, key, h2)
    IN IF key \notin DOMAIN ks THEN ks
       ELSE IF s = "WITH_DOCTOR" THEN KSet(k1, CurrentKey(d), Str(n))
       ELSE IF /\ s \in {"COMPLETED", "NO_SHOW"}
               /\ KGet(k1, CurrentKey(d), None) = Str(n)
            THEN KDel(k1, CurrentKey(d))
       ELSE k1

\* a check_in for the date d, start to return
ElsewhereCheckIn(d) ==
    /\ NoneInFlight /\ ops < MaxElsewhereOps
    /\ KGet(Keyspace, CounterKey(d), 0) < MaxTokens
    /\ \E t \in UtcNow(clock) :
          /\ clock' = t
          /\ KeyspaceBecomes(CheckInOn(Keyspace, d, t))
    /\ ops' = ops + 1
    /\ UNCHANGED <<issued, appointments, client, ttl, loc>>

\* an update_status for token n of the date d, start to return
ElsewhereUpdateStatus(d, n, s) ==
    /\ NoneInFlight /\ ops < MaxElsewhereOps
    /\ TokenKey(d, n) \in DOMAIN Keyspace
    /\ \E t \in UtcNow(clock) :
          /\ clock' = t
          /\ KeyspaceBecomes(UpdateStatusOn(Keyspace, d, n, s, t))
    /\ ops' = ops + 1
    /\ UNCHANGED <<issued, appointments, client, ttl, loc>>

\* check_ins and status updates for Today, one request at a time, among
\* whole requests for other dates
NextDates ==
    \/ \E p \in Procs :
          \/ Free(p) /\ NoneInFlight /\ StartCheckIn(p)
          \/ /\ Free(p) /\ NoneInFlight
             /\ \E n \in 1..MaxTokens : StartUpdateStatus(p, n, "WITH_DOCTOR")
          \/ CiIncr(p) \/ CiExpireCounter(p) \/ CiHSet(p) \/ CiExpireToken(p)
          \/ CiZAdd(p) \/ CiExpireQueue(p)
          \/ UsExists(p) \/ UsHSetStatus(p) \/ UsNow(p) \/ UsHSetCalled(p)
          \/ UsSetCurrent(p) \/ UsHGetAll(p)
          \/ Return(p)
    \/ \E d \in OtherDates :
          \/ ElsewhereCheckIn(d)
          \/ \E n \in 1..MaxTokens, s \in Statuses : ElsewhereUpdateStatus(d, n, s)

SpecDates == Init /\ [][NextDates]_vars

\* the keys of date d in the server
DateView(d) == [k \in KeysOf(d) \cap DOMAIN Keyspace |-> Keyspace[k]]

\* C25: a request for a date changes no key of another date: a request
\* for another date (a step that moves no handler of Today) leaves the counter, the records, the index and the
\* pointer of Today and of every third date as they are, and a step of a
\* request for Today leaves the keys of every other date as they are.
C25_DatesIndependent ==
    [][/\ loc' = loc =>
            \A d \in OtherDates :
                (\/ ElsewhereCheckIn(d)
                 \/ \E n \in 1..MaxTokens, s \in Statuses :
                        ElsewhereUpdateStatus(d, n, s))
                => /\ UNCHANGED <<counter, hashes, queue, current>>
                   /\ \A e \in OtherDates \ {d} : DateView(e)' = DateView(e)
       /\ loc' # loc => elsewhere' = elsewhere]_vars

\* C25 witness: Today and another date both hold token 1, the other date's
\* pointer is at its token 1 and Today's pointer is not set.
C25_Witness ==
    \E d \in OtherDates :
        /\ counter = 1 /\ 1 \in DOMAIN hashes /\ current = None
        /\ CounterKey(d) \in DOMAIN elsewhere /\ elsewhere[CounterKey(d)] = 1
        /\ CurrentKey(d) \in DOMAIN elsewhere /\ elsewhere[CurrentKey(d)] = Str(1)

\* ------------------------------------------------------------- call_next among others
\* the place of token n in the check-in order index
IndexPosition(n) ==
    CHOOSE i \in 1..Len(ZRange(queue)) : ZRange(queue)[i] = Str(n)

\* token m stands before token t in the check-in order index
Precedes(m, t) ==
    /\ Str(m) \in DOMAIN queue /\ Str(t) \in DOMAIN queue
    /\ IndexPosition(m) < IndexPosition(t)

\* handler p, running call_next, writes the status of its token in this step
CallNextWrites(p) ==
    /\ loc[p].op = "call_next" /\ loc[p].pc = "us_hset_status"
    /\ loc'[p].pc = "us_now"

\* C31: when call_next writes WITH_DOCTOR to token t, t is stored WAITING
\* and no token before t in the check-in order is WAITING.
C31_WritesFirstWaiting ==
    [][\A p \in Procs :
          CallNextWrites(p) =>
              LET t == loc[p].token_number IN
              /\ hashes[t].status = "WAITING"
              /\ \A m \in WaitingTokens : ~Precedes(m, t)]_vars

\* ------------------------------------------------------------- two call_next calls
\* on a queue at rest with exactly one WAITING token a caller starts
\* call_next; the token and all records are noted
PairBegin(p) ==
    /\ client.phase = "free"
    /\ Cardinality(WaitingTokens) = 1
    /\ loc[p].pc = "idle"
    /\ client' = [NoClient EXCEPT !.phase = "pair", !.calls = 1,
                                  !.token = CHOOSE n \in WaitingTokens : TRUE,
                                  !.expected = hashes]
    /\ Begin(p, CallNextFrame(p))
    /\ UNCHANGED <<Store, clock, issued, appointments, ttl, elsewhere>>

\* a second caller starts call_next while the first call is in flight
PairSecond(p) ==
    /\ client.phase = "pair" /\ client.calls = 1
    /\ loc[p].pc = "idle"
    /\ \E q \in Procs \ {p} : InFlight(q)
    /\ client' = [client EXCEPT !.calls = 2]
    /\ Begin(p, CallNextFrame(p))
    /\ UNCHANGED <<Store, clock, issued, appointments, ttl, elsewhere>>

\* check_ins that may overlap, then status requests one at a time, then two
\* call_next calls that overlap with nothing else running
NextPair ==
    \E p \in Procs :
        \/ /\ client.phase = "free" /\ Free(p)
           /\ \/ ops = 0 /\ OthersRun(p, "check_in") /\ StartCheckIn(p)
              \/ ops < MaxPrefixOps /\ NoneInFlight /\ StartCallNext(p)
              \/ ops < MaxPrefixOps /\ StartStatusAlone(p)
        \/ Free(p) /\ NoneInFlight /\ PairBegin(p)
        \/ PairSecond(p)
        \/ Step(p)

SpecPair == Init /\ [][NextPair]_vars

\* both calls of the pair have run to their end
PairOver == client.phase = "pair" /\ client.calls = 2 /\ NoneInFlight

\* C32: after two overlapping call_next calls on a queue with exactly one
\* WAITING token t, t is WITH_DOCTOR with a called_time, the pointer is t,
\* and every other record is as it was.
C32_PairEndsOnToken ==
    PairOver =>
        LET t == client.token IN
        /\ hashes[t].status = "WITH_DOCTOR"
        /\ hashes[t].called_time # EmptyStr
        /\ current = Str(t)
        /\ Tokens = DOMAIN client.expected
        /\ \A n \in Tokens \ {t} : hashes[n] = client.expected[n]

\* C32 witness: both calls of the pair returned the one WAITING token, the
\* second of two tokens, while the other token is WITH_DOCTOR as before.
C32_Witness ==
    \E p, q \in Procs :
        /\ PairOver /\ client.token = 2
        /\ BothReturned(p, q, 2)
        /\ hashes[1].status = "WITH_DOCTOR"

\* ------------------------------------------------------------- the token returned
\* handler p returns from update_status with a token in this step
UpdateReturns(p) ==
    /\ loc[p].pc = "us_hgetall"
    /\ loc'[p].pc \in {"done", "api_returned"}

\* C33: the token update_status returns reports the status the call wrote;
\* the token call_next returns reports WITH_DOCTOR.
C33_ReturnsWrittenStatus ==
    [][\A p \in Procs :
          UpdateReturns(p) =>
              loc'[p].result[1].status = loc[p].new_status]_vars

\* ------------------------------------------------------------- called_time
\* handler p, updating to WITH_DOCTOR, is at its write of called_time
AtCalledWrite(p) ==
    loc[p].pc = "us_hset_called" /\ loc[p].new_status = "WITH_DOCTOR"

\* C34: with one request at a time, every update to WITH_DOCTOR reads the
\* clock and writes that instant as called_time, also over an earlier one;
\* until the call returns it is the last instant read; no other step
\* changes a called_time, and a record is created with called_time empty.
C34_CalledTimeOfLastCall ==
    [][/\ \A p \in Procs :
            /\ (loc[p].pc = "us_now" /\ loc[p].new_status = "WITH_DOCTOR"
                /\ loc'[p] # loc[p])
               => loc'[p].pc = "us_hset_called" /\ loc'[p].now = clock'
            /\ (AtCalledWrite(p) /\ loc'[p] # loc[p])
               => hashes'[loc[p].token_number].called_time = IsoFormat(loc[p].now)
            /\ (loc'[p].pc \in {"us_set_current", "us_hgetall"}
                /\ loc'[p].new_status = "WITH_DOCTOR")
               => hashes'[loc'[p].token_number].called_time = IsoFormat(clock')
       /\ \A n \in DOMAIN hashes' :
            IF n \in DOMAIN hashes
            THEN hashes'[n].called_time # hashes[n].called_time
                 => \E p \in Procs :
                       /\ AtCalledWrite(p) /\ loc[p].token_number = n
                       /\ loc'[p].pc = "us_set_current"
            ELSE hashes'[n].called_time = EmptyStr]_vars

\* C34 witness: an update to WITH_DOCTOR that read instant 1 is at its write
\* of called_time for a token that was called at instant 0 and has been
\* COMPLETED since.
C34_Witness ==
    \E p \in Procs :
        /\ AtCalledWrite(p) /\ loc[p].now = 1
        /\ hashes[loc[p].token_number].called_time = IsoFormat(0)
        /\ hashes[loc[p].token_number].completed_time # EmptyStr

\* ------------------------------------------------------------- record before index
\* the fields of the record check_in writes
TokenFields == DOMAIN TokenData(Idle)

\* the record of token n exists with every field, its status one of the five
CompleteRecord(n) ==
    /\ n \in Tokens
    /\ DOMAIN hashes[n] = TokenFields
    /\ hashes[n].status \in Statuses

\* C35: while no key expires, every member of the check-in order index has
\* a complete record, also in the middle of concurrent check_ins; a
\* get_today_queue finds the record of every member it read, and every
\* token it returns has its status.
C35_RecordBeforeIndex ==
    /\ \A m \in DOMAIN queue : CompleteRecord(ParseInt(m))
    /\ \A p \in Procs :
          /\ loc[p].pc = "gq_hgetall" =>
                \A i \in 1..Len(loc[p].token_numbers) :
                    CompleteRecord(ParseInt(loc[p].token_numbers[i]))
          /\ Returned(p, "list_today") =>
                \A i \in 1..Len(loc[p].result[1]) :
                    loc[p].result[1][i].status \in Statuses

\* C35 witness: a list with token 1 alone was returned while the check_in
\* of token 2 has written the record and not yet the index entry.
C35_Witness ==
    \E p, q \in Procs :
        /\ Returned(p, "list_today") /\ Len(loc[p].result[1]) = 1
        /\ loc[q].pc = "ci_zadd" /\ loc[q].token_number = 2
        /\ 2 \in Tokens

\* ------------------------------------------------------------- the set of tokens
\* handler p, running a status operation, takes a step
StatusStep(p) ==
    loc[p].op \in {"update_status", "call_next"} /\ loc'[p] # loc[p]

\* C36: while no key expires, no step of update_status, skip, recall or
\* call_next changes the sequence counter, the check-in order index or the
\* set of token records, so the token numbers get_today_queue lists are
\* the same before and after; a step that changes one of them is a step
\* of check_in.
C36_StatusKeepsTokens ==
    [][/\ (\E p \in Procs : StatusStep(p))
          => /\ counter' = counter /\ queue' = queue
             /\ DOMAIN hashes' = DOMAIN hashes
             /\ IndexOrder' = IndexOrder
       /\ (counter' # counter \/ queue' # queue \/ DOMAIN hashes' # DOMAIN hashes)
          => \E p \in Procs : loc[p].op = "check_in" /\ loc'[p] # loc[p]]_vars

\* C36 witness: a completion has returned and both tokens checked in are
\* in the index and have their records.
C36_Witness ==
    \E p \in Procs :
        /\ Returned(p, "update_status")
        /\ loc[p].result[1].status = "COMPLETED"
        /\ counter = 2 /\ IndexOrder = <<1, 2>> /\ Tokens = {1, 2}

\* ------------------------------------------------------------- what the pointer names
\* handler p, updating to WITH_DOCTOR a token it found, sets the pointer
PointerWrite(p) ==
    /\ loc[p].pc = "us_set_current" /\ loc[p].new_status = "WITH_DOCTOR"
    /\ loc[p].token_number \in Tokens
    /\ loc'[p].pc = "us_hgetall"
    /\ current' = Str(loc[p].token_number)

\* C37: while no key expires, the pointer, when set, is the number of a
\* token with a record, between 1 and the counter; every step that sets it
\* is the pointer write of an update to WITH_DOCTOR for a token it found.
C37_PointerNamesToken ==
    [][/\ PointerSet' =>
            /\ ParseInt(current') \in DOMAIN hashes'
            /\ 1 <= ParseInt(current') /\ ParseInt(current') <= counter'
       /\ (PointerSet' /\ current' # current)
          => \E p \in Procs : PointerWrite(p)]_vars

\* C37 witness: an update to WITH_DOCTOR has moved the pointer from token 1
\* to token 2, the last number issued.
C37_Witness ==
    \E p \in Procs :
        /\ loc[p].pc = "us_hgetall" /\ loc[p].new_status = "WITH_DOCTOR"
        /\ loc[p].token_number = 2 /\ loc[p].ptr0 = Str(1)
        /\ current = Str(2) /\ counter = 2

\* ------------------------------------------------------------- the counts of a summary
\* the tokens of the list ts that have status st
WithStatus(ts, st) == SelectSeq(ts, LAMBDA t : t.status = st)

\* C38: in every summary returned, total_tokens is the length of the
\* summary's token list and the sum of the five counts, and each count is
\* the number of listed tokens with that status.
C38_CountsAddUp ==
    \A p \in Procs :
        Returned(p, "summary") =>
            LET r == loc[p].result[1] IN
            /\ r.total_tokens = Len(r.tokens)
            /\ r.total_tokens =
                  r.waiting + r.with_doctor + r.completed + r.skipped + r.no_show
            /\ r.waiting = Len(WithStatus(r.tokens, "WAITING"))
            /\ r.with_doctor = Len(WithStatus(r.tokens, "WITH_DOCTOR"))
            /\ r.completed = Len(WithStatus(r.tokens, "COMPLETED"))
            /\ r.skipped = Len(WithStatus(r.tokens, "SKIPPED"))
            /\ r.no_show = Len(WithStatus(r.tokens, "NO_SHOW"))

\* C38 witness: a summary of a COMPLETED token and a NO_SHOW token reports
\* a total of two.
C38_Witness ==
    \E p \in Procs :
        /\ Returned(p, "summary")
        /\ loc[p].result[1].completed = 1
        /\ loc[p].result[1].no_show = 1
        /\ loc[p].result[1].total_tokens = 2

====
